---- MODULE Spec2Model ----
(***************************************************************************)
(* Model of src/src/extension.ts (the later revision, lines 641-1425): the *)
(* per-document parse-tree cache, the grammar registry loaded by           *)
(* ensureLoaded, documentTree with its deadline, determineLanguage on      *)
(* strings, the scoped-access helper `using` and the with-helpers, the     *)
(* range conversions, the scope-inspection display, and the finalization   *)
(* registry of the earlier revision (lines 1-639).                         *)
(*                                                                         *)
(* A native tree handle is an index into the sequence `trees`; the record  *)
(* at that index holds the text and grammar the tree was parsed from and   *)
(* how many times delete() was called on it; a deleted tree has no content.*)
(***************************************************************************)
EXTENDS Integers, Sequences, FiniteSets, TLC

\* ------------------------------------------------------------------ bounds
NumDocs == 2
NumTexts == 2
MaxHandles == 4
StartNow == 1000
TickMs == 130000
MaxTicks == 1
NumProcs == 2
MaxLoads == 2
SomeTimeoutMs == 50
NumObjects == 2
MaxArgs == 2
MaxPathLen == 6
NumCaches == 2
MaxIndex == 2
MaxRow == 1
MaxColumn == 1
MaxUpdates == 3
MaxWrappers == 3

Docs == 1 .. NumDocs
Procs == 1 .. NumProcs
Objects == 1 .. NumObjects
Texts == 1 .. NumTexts
Languages == {"rust", "c"}
NoLanguage == "none"
NoHandle == 0

\* The instances of the class Cache (lines 1089-1101) that callers have made,
\* and the value of options.cache when no cache is given.
Caches == 1 .. NumCaches
FirstCache == 1
NoCache == 0
Chars == {".", "c", "p", "r", "s", "t", "x", "y"}
Strings == UNION {[1 .. n -> Chars] : n \in 0 .. MaxPathLen}

\* ------------------------------------------------------- program constants
\* The literal 120_000 of the change handler.
StalenessWindowMs == 120000

\* The factor 1e3 from milliseconds to the microseconds of setTimeoutMicros.
MicrosPerMs == 1000

VARIABLES
  documentCache,    \* Map<TextDocument, {tree, dirtyTimestamp}>
  loadedLanguages,  \* { [language]?: Language | Promise<Language> }
  trees,            \* native tree handles, by handle number
  callerTrees,      \* handles returned to callers and not yet released by them
  docText,          \* document.getText() of every document
  docOpen,          \* the host still has the document open
  subscribed,       \* the handlers registered by activate() are not disposed
  now,              \* Date.now()
  op,               \* the last operation on the documents and the cache
  prevRequest,      \* per document: handle returned by the last cache-aware
                    \* request with no change, close or disposal since
  changedTree,      \* per document: the cached handle at the first change
                    \* notification since the last cache-aware request
  lastCache,        \* per document, the Cache instance of the last cache-aware
                    \* request that succeeded since the document changed
  parser            \* what the last operation asked of getLanguageSync and
                    \* the parser it made, if it is a tree request

VARIABLES
  runtime,          \* the native runtime: "none", "pending" or "ready"
  loads,            \* the promises made by TreeSitter.Language.load
  procs             \* the asynchronous ensureLoaded calls in progress

VARIABLES
  usingCall,        \* the call of `using` in progress or last made
  outcomes          \* the ways in which calls of `using` have ended so far

VARIABLES
  calls,            \* the asynchronous documentTree calls in progress
  determination     \* a string and what determineLanguage makes of it

VARIABLES
  conversion,       \* a native node or range and the host range made of it
  withCalls,        \* the calls of the with-helpers, outer and nested
  releaseLog,       \* the calls whose resource was released, in order
  inspect,          \* the scope-inspection display: its updates and its item
  wrappers          \* earlier revision: the DocumentTree objects handed out

vars == <<documentCache, loadedLanguages, trees, callerTrees, docText, docOpen,
          subscribed, now, op, prevRequest, lastCache, changedTree, parser,
          runtime, loads, procs, usingCall, outcomes, calls, determination,
          conversion, withCalls, releaseLog, inspect, wrappers>>

cacheVars == <<documentCache, trees, callerTrees, docText, docOpen, subscribed,
               now, prevRequest, lastCache, changedTree, parser>>

loadVars == <<runtime, loads, procs>>

usingVars == <<usingCall, outcomes>>

withVars == <<withCalls, releaseLog>>

helperVars == <<conversion, withVars, inspect, wrappers>>

\* What the operations on the document cache, the ensureLoaded calls and the
\* calls of `using` leave alone.
outsideCache == <<loadVars, usingVars, calls, determination, helperVars>>

outsideLoad == <<cacheVars, usingVars, calls, determination, helperVars>>

outsideUsing == <<cacheVars, loadVars, loadedLanguages, op, calls,
                  determination, helperVars>>

outsideDetermine == <<cacheVars, loadVars, usingVars, loadedLanguages, op,
                      calls, helperVars>>

outsideConversion == <<cacheVars, loadVars, usingVars, loadedLanguages, op,
                       calls, determination, withVars, inspect, wrappers>>

outsideWith == <<cacheVars, loadVars, usingVars, loadedLanguages, op, calls,
                 determination, conversion, inspect, wrappers>>

outsideInspect == <<cacheVars, loadVars, usingVars, loadedLanguages, op, calls,
                    determination, conversion, withVars, wrappers>>

\* What a tree request of the earlier revision and the finalization of its
\* wrappers leave alone, next to the cache.
outsideWrappers == <<loadVars, usingVars, calls, determination, conversion,
                     withVars, inspect>>

\* ----------------------------------------------------------- Map helpers
\* Map.set(key, value)
MapSet(map, key, value) ==
  [k \in DOMAIN map \cup {key} |-> IF k = key THEN value ELSE map[k]]

\* Map.delete(key)
MapDelete(map, key) == [k \in DOMAIN map \ {key} |-> map[k]]

\* The empty Map of `new Map()` and of Map.clear().
EmptyMap == [k \in {} |-> 0]

\* ----------------------------------------------------- the native engine
\* parser.parse(text) and parser.parse(text, oldTree): a new tree.
\* `role` tells what the tree was made for: "cache" for a cache entry,
\* "caller" for the caller of a cache-aware request, "plain" for the caller
\* of a request without a Cache token.
ParserParse(text, language, role) ==
  [text |-> text, language |-> language, deleted |-> 0, role |-> role]

\* tree.copy(): a new tree with the content of tree number h of ts.
TreeCopy(ts, h, role) ==
  [text |-> ts[h].text, language |-> ts[h].language, deleted |-> 0,
   role |-> role]

\* tree.delete() on every handle of the set hs: the content is freed.
TreeDelete(ts, hs) ==
  [h \in DOMAIN ts |->
     IF h \in hs
       THEN [text |-> 0, language |-> NoLanguage,
             deleted |-> ts[h].deleted + 1, role |-> ts[h].role]
       ELSE ts[h]]

\* ------------------------------------------------------ grammar registry
Undefined == [kind |-> "undefined", id |-> 0]
PromiseOf(id) == [kind |-> "promise", id |-> id]
ModuleOf(id) == [kind |-> "module", id |-> id]

\* A test that takes a pending promise for a loaded grammar.
IsLanguageOrPromise(value) == value.kind # "undefined"

\* loadedLanguage instanceof TreeSitter.Language
IsLanguage(value) == value.kind = "module"

\* The language id the host declares for a document.
LanguageIdOf(d) == IF d % 2 = 1 THEN "rust" ELSE "c"

\* determineLanguage(document): the knownLanguageIds lookup.
DetermineLanguage(d) == LanguageIdOf(d)

\* An ensureLoaded call: where it is suspended, the language it resolved,
\* the value it awaits and how its last call ended.
Idle(result) ==
  [pc |-> "idle", language |-> NoLanguage, wait |-> Undefined,
   result |-> result]

Suspended(pc, language, wait) ==
  [pc |-> pc, language |-> language, wait |-> wait, result |-> "none"]

\* The call of `using`: where it is, its handles, what its continuation does
\* and did, and the number of delete() calls it has made on each object.
NoUsing ==
  [pc |-> "idle", args |-> <<>>, k |-> "none", outcome |-> "none",
   released |-> [o \in Objects |-> 0]]

\* A documentTree call: where it is suspended, its arguments, its deadline
\* (0 when it has none) and how its last call ended.
NoCall(result) ==
  [pc |-> "idle", doc |-> 0, optLanguage |-> NoLanguage, cache |-> NoCache,
   timeoutMs |-> 0, deadline |-> 0, result |-> result]

\* A Tree Sitter point and the positions the bounds allow.
Point(row, column) == [row |-> row, column |-> column]

Points == {Point(row, column) : row \in 0 .. MaxRow, column \in 0 .. MaxColumn}

\* What toRange reads of a SyntaxNode and importRange of a TreeSitter.Range:
\* the two offsets and the two points.  Every combination is drawn, also
\* those no parser produces.
NativeRanges ==
  [startIndex : 0 .. MaxIndex, endIndex : 0 .. MaxIndex,
   startPosition : Points, endPosition : Points]

\* new vscode.Position(line, character)
Position(line, character) == [line |-> line, character |-> character]

\* position.isBefore(other)
IsBefore(position, other) ==
  \/ position.line < other.line
  \/ position.line = other.line /\ position.character < other.character

\* new vscode.Range(start, end): the host swaps the two positions when
\* start is not before or equal to end.
Range(start, end) ==
  IF IsBefore(end, start) THEN [start |-> end, end |-> start]
                          ELSE [start |-> start, end |-> end]

\* toPosition(point)
ToPosition(point) == Position(point.row, point.column)

\* A conversion that takes both positions whatever the offsets are.
ToRangeOfPositions(node) ==
  Range(ToPosition(node.startPosition), ToPosition(node.endPosition))

\* toRange(node)
ToRange(node) ==
  LET startPosition == ToPosition(node.startPosition) IN
  IF node.startIndex = node.endIndex
    THEN Range(startPosition, startPosition)
    ELSE Range(startPosition, ToPosition(node.endPosition))

\* importRange(range) of the earlier revision
ImportRange(range) ==
  LET startPosition ==
        Position(range.startPosition.row, range.startPosition.column) IN
  IF range.startIndex = range.endIndex
    THEN Range(startPosition, startPosition)
    ELSE LET endPosition ==
               Position(range.endPosition.row, range.endPosition.column)
         IN Range(startPosition, endPosition)

\* A native range that is about to be converted, and one that was converted
\* by the named function.
Unconverted(native) ==
  [native |-> native, by |-> "none", range |-> Range(Position(0, 0),
                                                     Position(0, 0))]

Converted(native, by, range) == [native |-> native, by |-> by, range |-> range]

ConversionIdle ==
  conversion = Unconverted([startIndex |-> 0, endIndex |-> 0,
                            startPosition |-> Point(0, 0),
                            endPosition |-> Point(0, 0)])

\* A call of a helper made by makeWith or makeSyncWith: where it is, which
\* helper it is, what its continuation does, whether f gave a resource, how
\* often the continuation was invoked and delete() was called on the
\* resource, how the continuation ended and how the call ended.
NoWith ==
  [pc |-> "idle", helper |-> "none", k |-> "none", obtained |-> FALSE,
   invoked |-> 0, released |-> 0, kOutcome |-> "none", outcome |-> "none"]

\* The outer call and the call nested in its continuation.
Outer == 1
Nested == 2
WithFrames == {Outer, Nested}

WithIdle ==
  /\ withCalls = [i \in WithFrames |-> NoWith]
  /\ releaseLog = <<>>

\* The scope-inspection display after the command made its status item and
\* before the first updateItem(): no update yet, and an item that was never
\* shown and has no text.  An update is numbered by its place in `updates`.
InspectIdle ==
  inspect = [updates |-> <<>>,
             item |-> [visible |-> FALSE, text |-> 0, error |-> FALSE]]

\* No helper is in use and no wrapper was handed out.
HelpersIdle ==
  ConversionIdle /\ WithIdle /\ InspectIdle /\ wrappers = <<>>

\* The operation made no parser and did not call getLanguageSync.
NoParser ==
  [language |-> NoLanguage, found |-> "none", created |-> FALSE,
   timeoutMicros |-> 0, deleted |-> 0]

\* getLanguageSync(language) read the registry entry `loadedLanguage` and
\* threw: no parser was made.
NotLoaded(language, loadedLanguage) ==
  [language |-> language, found |-> loadedLanguage.kind, created |-> FALSE,
   timeoutMicros |-> 0, deleted |-> 0]

\* getLanguageSync(language) returned the module; the parser made by
\* `new TreeSitter()`, the value given to its setTimeoutMicros (0 when it
\* was not called) and the number of delete() calls made on it.
NewParser(language, timeoutMicros) ==
  [language |-> language, found |-> "module", created |-> TRUE,
   timeoutMicros |-> timeoutMicros, deleted |-> 0]

\* A parser.delete() that is reached only when the try block returns.
FinallyOnReturn(made, result) ==
  IF result = "ok" THEN [made EXCEPT !.deleted = @ + 1] ELSE made

\* The finally block of documentTreeSync (lines 1194-1196): parser.delete(),
\* however the try block ended.
Finally(made, result) == [made EXCEPT !.deleted = @ + 1]

\* ------------------------------------------------------ determineLanguage
\* A string is the sequence of its characters.
\* String.prototype.endsWith
EndsWith(input, suffix) ==
  /\ Len(input) >= Len(suffix)
  /\ SubSeq(input, Len(input) - Len(suffix) + 1, Len(input)) = suffix

\* A match of a literal anywhere in the string (a RegExp without anchors).
Contains(input, part) ==
  \E i \in 1 .. Len(input) - Len(part) + 1 :
    SubSeq(input, i, i + Len(part) - 1) = part

\* The values of the enum Language, as strings.
AllLanguages ==
  [c |-> <<"c">>,
   cpp |-> <<"c", "p", "p">>,
   go |-> <<"g", "o">>,
   html |-> <<"h", "t", "m", "l">>,
   javascript |-> <<"j", "a", "v", "a", "s", "c", "r", "i", "p", "t">>,
   python |-> <<"p", "y", "t", "h", "o", "n">>,
   rust |-> <<"r", "u", "s", "t">>,
   typescript |-> <<"t", "y", "p", "e", "s", "c", "r", "i", "p", "t">>,
   tsx |-> <<"t", "s", "x">>]

\* /\.c(c|pp)|\.h(|h|pp)$/.test(input): the `$` binds to the second
\* alternative only, the first matches anywhere in the string.
TestCpp(input) ==
  \/ Contains(input, <<".", "c", "c">>)
  \/ Contains(input, <<".", "c", "p", "p">>)
  \/ EndsWith(input, <<".", "h">>)
  \/ EndsWith(input, <<".", "h", "h">>)
  \/ EndsWith(input, <<".", "h", "p", "p">>)

\* /\.[cm]?jsx?$/.test(input)
TestJs(input) ==
  \E prefix \in {<<".">>, <<".", "c">>, <<".", "m">>},
     rest \in {<<"j", "s">>, <<"j", "s", "x">>} :
    EndsWith(input, prefix \o rest)

\* /\.[cm]?tsx?$/.test(input)
TestTs(input) ==
  \E prefix \in {<<".">>, <<".", "c">>, <<".", "m">>},
     rest \in {<<"t", "s">>, <<"t", "s", "x">>} :
    EndsWith(input, prefix \o rest)

\* determineLanguage(input) for a string (lines 1032-1068); NoLanguage is
\* `undefined`.  JavaScriptReact has the value of JavaScript.
DetermineLanguageString(input) ==
  IF \E tag \in DOMAIN AllLanguages : AllLanguages[tag] = input
    THEN CHOOSE tag \in DOMAIN AllLanguages : AllLanguages[tag] = input
  ELSE IF EndsWith(input, <<".", "c">>) THEN "c"
  ELSE IF TestCpp(input) THEN "cpp"
  ELSE IF EndsWith(input, <<".", "g", "o">>) THEN "go"
  ELSE IF EndsWith(input, <<".", "h", "t", "m", "l">>) THEN "html"
  ELSE IF TestJs(input) THEN "javascript"
  ELSE IF EndsWith(input, <<".", "p", "y">>) THEN "python"
  ELSE IF EndsWith(input, <<".", "r", "s">>) THEN "rust"
  ELSE IF TestTs(input)
    THEN IF EndsWith(input, <<"x">>) THEN "tsx" ELSE "typescript"
  ELSE NoLanguage

\* The error thrown by determineLanguageOrFail.
CannotDetermine == "cannot determine language"

\* determineLanguageOrFail(input) for a string (lines 1075-1083).
DetermineLanguageOrFail(input) ==
  LET result == DetermineLanguageString(input) IN
  IF result = NoLanguage THEN CannotDetermine ELSE result

\* A string on which the two functions were not called yet, and the string
\* with what each of them returned or threw.
Undetermined(input) ==
  [input |-> input, language |-> "pending", orFail |-> "pending"]

Determined(input) ==
  [input |-> input, language |-> DetermineLanguageString(input),
   orFail |-> DetermineLanguageOrFail(input)]

\* -------------------------------------------------------------- history
Op(kind, doc, cache, result, parse, seed, ret, old, oldTs) ==
  [kind |-> kind, doc |-> doc, cache |-> cache, result |-> result,
   parse |-> parse, seed |-> seed, ret |-> ret, old |-> old, oldTs |-> oldTs]

\* The cached handle and dirty marker of a document before the step.
OldTree(d) ==
  IF d \in DOMAIN documentCache THEN documentCache[d].tree ELSE NoHandle

OldTimestamp(d) ==
  IF d \in DOMAIN documentCache THEN documentCache[d].dirtyTimestamp ELSE 0

\* ------------------------------------------------------------------ Init
\* The state after activate(): nothing is cached and nothing is loaded.
Init ==
  /\ documentCache = EmptyMap
  /\ loadedLanguages = [l \in Languages |-> Undefined]
  /\ trees = <<>>
  /\ callerTrees = {}
  /\ docText = [d \in Docs |-> 1]
  /\ docOpen = [d \in Docs |-> TRUE]
  /\ subscribed = TRUE
  /\ now = StartNow
  /\ op = Op("activate", 0, FALSE, "ok", "none", NoHandle, NoHandle, NoHandle, 0)
  /\ prevRequest = [d \in Docs |-> NoHandle]
  /\ lastCache = [d \in Docs |-> NoCache]
  /\ changedTree = [d \in Docs |-> NoHandle]
  /\ runtime = "none"
  /\ loads = <<>>
  /\ procs = [p \in Procs |-> Idle("none")]
  /\ usingCall = NoUsing
  /\ outcomes = {}
  /\ parser = NoParser
  /\ calls = [p \in Procs |-> NoCall("none")]
  /\ determination = Undetermined(<<>>)
  /\ HelpersIdle

\* The languages of a set in a fixed order.
RECURSIVE InOrder(_)
InOrder(languages) ==
  IF languages = {} THEN <<>>
  ELSE LET l == CHOOSE x \in languages : TRUE
       IN <<l>> \o InOrder(languages \ {l})

\* The state after activate() and after ensureLoaded has completed, one call
\* at a time, for each language of some set: the runtime is ready, every
\* load has resolved and the registry holds the resolved modules.
InitLoaded ==
  /\ documentCache = EmptyMap
  /\ \E loaded \in SUBSET Languages :
       /\ loads = [i \in 1 .. Cardinality(loaded) |->
                     [language |-> InOrder(loaded)[i], state |-> "resolved"]]
       /\ loadedLanguages =
            [l \in Languages |->
               IF l \in loaded
                 THEN ModuleOf(CHOOSE i \in 1 .. Cardinality(loaded) :
                                 InOrder(loaded)[i] = l)
                 ELSE Undefined]
  /\ trees = <<>>
  /\ callerTrees = {}
  /\ docText = [d \in Docs |-> 1]
  /\ docOpen = [d \in Docs |-> TRUE]
  /\ subscribed = TRUE
  /\ now = StartNow
  /\ op = Op("activate", 0, FALSE, "ok", "none", NoHandle, NoHandle, NoHandle, 0)
  /\ prevRequest = [d \in Docs |-> NoHandle]
  /\ lastCache = [d \in Docs |-> NoCache]
  /\ changedTree = [d \in Docs |-> NoHandle]
  /\ runtime = "ready"
  /\ procs = [p \in Procs |-> Idle("ok")]
  /\ usingCall = NoUsing
  /\ outcomes = {}
  /\ parser = NoParser
  /\ calls = [p \in Procs |-> NoCall("none")]
  /\ determination = Undetermined(<<>>)
  /\ HelpersIdle

\* ------------------------------------------------- documentTreeSync
\* A test that takes only the first instance for a Cache.
IsFirstCache(cache) == cache = FirstCache

\* options.cache instanceof Cache
IsCache(cache) == cache # NoCache

\* A failing request that gives up the entry of the document.
RequestFailsDropsEntry(d, useCache, result, parsed) ==
  /\ op' = Op("documentTreeSync", d, useCache, result,
              IF parsed THEN (IF useCache /\ OldTimestamp(d) # 0
                              THEN "incremental" ELSE "full")
                        ELSE "none",
              IF parsed /\ useCache /\ OldTimestamp(d) # 0
                THEN OldTree(d) ELSE NoHandle,
              NoHandle, OldTree(d), OldTimestamp(d))
  /\ documentCache' = MapDelete(documentCache, d)
  /\ trees' = TreeDelete(trees, {OldTree(d)} \ {NoHandle})
  /\ UNCHANGED <<callerTrees, prevRequest, changedTree>>

\* A request that fails: nothing changes.
RequestFails(d, useCache, result, parsed) ==
  /\ op' = Op("documentTreeSync", d, useCache, result,
              IF parsed THEN (IF useCache /\ OldTimestamp(d) # 0
                              THEN "incremental" ELSE "full")
                        ELSE "none",
              IF parsed /\ useCache /\ OldTimestamp(d) # 0
                THEN OldTree(d) ELSE NoHandle,
              NoHandle, OldTree(d), OldTimestamp(d))
  /\ UNCHANGED <<documentCache, trees, callerTrees, prevRequest, changedTree>>

\* state === undefined: full parse, store a copy, return the parsed tree.
CacheMiss(d, language) ==
  LET tree == Len(trees) + 1
      copy == Len(trees) + 2
      parsed == Append(trees, ParserParse(docText[d], language, "caller"))
  IN
  /\ trees' = Append(parsed, TreeCopy(parsed, tree, "cache"))
  /\ documentCache' =
       MapSet(documentCache, d, [tree |-> copy, dirtyTimestamp |-> 0])
  /\ callerTrees' = callerTrees \cup {tree}
  /\ prevRequest' = [prevRequest EXCEPT ![d] = tree]
  /\ changedTree' = [changedTree EXCEPT ![d] = NoHandle]
  /\ op' = Op("documentTreeSync", d, TRUE, "ok", "full", NoHandle, tree,
              NoHandle, 0)

\* state.dirtyTimestamp !== 0: reparse seeded with state.tree, release it,
\* store a copy of the new tree as clean, return the new tree.
CacheReparse(d, language) ==
  LET state == documentCache[d]
      tree == Len(trees) + 1
      copy == Len(trees) + 2
      parsed == Append(trees, ParserParse(docText[d], language, "caller"))
      deleted == TreeDelete(parsed, {state.tree})
  IN
  /\ trees' = Append(deleted, TreeCopy(deleted, tree, "cache"))
  /\ documentCache' =
       [documentCache EXCEPT ![d] = [tree |-> copy, dirtyTimestamp |-> 0]]
  /\ callerTrees' = callerTrees \cup {tree}
  /\ prevRequest' = [prevRequest EXCEPT ![d] = tree]
  /\ changedTree' = [changedTree EXCEPT ![d] = NoHandle]
  /\ op' = Op("documentTreeSync", d, TRUE, "ok", "incremental", state.tree,
              tree, state.tree, state.dirtyTimestamp)

\* The earlier revision's cache hit (line 424): the entry's own handle.
CacheHitShared(d) ==
  LET state == documentCache[d] IN
  /\ callerTrees' = callerTrees \cup {state.tree}
  /\ prevRequest' = [prevRequest EXCEPT ![d] = state.tree]
  /\ changedTree' = [changedTree EXCEPT ![d] = NoHandle]
  /\ op' = Op("documentTreeSync", d, TRUE, "ok", "none", NoHandle,
              state.tree, state.tree, 0)
  /\ UNCHANGED <<documentCache, trees>>

\* The entry is clean: return state.tree.copy().
CacheHit(d) ==
  LET state == documentCache[d]
      copy == Len(trees) + 1
  IN
  /\ trees' = Append(trees, TreeCopy(trees, state.tree, "caller"))
  /\ callerTrees' = callerTrees \cup {copy}
  /\ prevRequest' = [prevRequest EXCEPT ![d] = copy]
  /\ changedTree' = [changedTree EXCEPT ![d] = NoHandle]
  /\ op' = Op("documentTreeSync", d, TRUE, "ok", "none", NoHandle, copy,
              state.tree, 0)
  /\ UNCHANGED documentCache

\* A request without a Cache token that stores what it parsed.
UncachedStores(d, language) ==
  LET tree == Len(trees) + 1 IN
  /\ trees' = Append(trees, ParserParse(docText[d], language, "plain"))
  /\ callerTrees' = callerTrees \cup {tree}
  /\ documentCache' =
       MapSet(documentCache, d, [tree |-> tree, dirtyTimestamp |-> 0])
  /\ op' = Op("documentTreeSync", d, FALSE, "ok", "full", NoHandle, tree,
              OldTree(d), OldTimestamp(d))
  /\ UNCHANGED <<prevRequest, changedTree>>

\* No Cache token: parse the current text and return the tree.
Uncached(d, language) ==
  LET tree == Len(trees) + 1 IN
  /\ trees' = Append(trees, ParserParse(docText[d], language, "plain"))
  /\ callerTrees' = callerTrees \cup {tree}
  /\ op' = Op("documentTreeSync", d, FALSE, "ok", "full", NoHandle, tree,
              OldTree(d), OldTimestamp(d))
  /\ UNCHANGED <<documentCache, prevRequest, changedTree>>

\* A dirty test that sends every request with an entry to the reparse.
IsDirtyAlways(state) == TRUE

\* state.dirtyTimestamp !== 0
IsDirty(state) == state.dirtyTimestamp # 0

\* typeof options.timeoutMs === "number" && options.timeoutMs > 0
HasTimeout(timeoutMs) == timeoutMs > 0

\* parser.setTimeoutMicros(options.timeoutMs * 1e3), called for a timeout
\* only (lines 1170-1172).
SetTimeoutMicros(timeoutMs) ==
  IF HasTimeout(timeoutMs) THEN timeoutMs * MicrosPerMs ELSE 0

\* options.language ?? determineLanguageOrFail(document)
ResolvedLanguage(d, optLanguage) ==
  IF optLanguage # NoLanguage THEN optLanguage ELSE DetermineLanguage(d)

\* The body of documentTreeSync (lines 1157-1197).  parseOk is the outcome
\* of parser.parse, which can only fail when a timeout is set.
DocumentTreeSyncCall(d, optLanguage, cache, timeoutMs, parseOk) ==
  LET language == ResolvedLanguage(d, optLanguage)
      useCache == IsCache(cache) IN
  /\ Len(trees) + 2 <= MaxHandles
  /\ ~parseOk => HasTimeout(timeoutMs)
  /\ IF ~IsLanguage(loadedLanguages[language])
        THEN RequestFails(d, useCache, "notLoaded", FALSE)
      ELSE IF useCache
        THEN IF d \notin DOMAIN documentCache
               THEN IF parseOk THEN CacheMiss(d, language)
                    ELSE RequestFails(d, useCache, "parseFailed", TRUE)
             ELSE IF IsDirty(documentCache[d])
               THEN IF parseOk THEN CacheReparse(d, language)
                    ELSE RequestFails(d, useCache, "parseFailed", TRUE)
             ELSE CacheHit(d)
      ELSE IF parseOk THEN Uncached(d, language)
           ELSE RequestFails(d, useCache, "parseFailed", TRUE)
  /\ parser' = IF IsLanguage(loadedLanguages[language])
                 THEN Finally(NewParser(language, SetTimeoutMicros(timeoutMs)),
                              op'.result)
                 ELSE NotLoaded(language, loadedLanguages[language])
  /\ lastCache' = IF useCache /\ op'.result = "ok"
                    THEN [lastCache EXCEPT ![d] = cache]
                    ELSE lastCache
  /\ UNCHANGED <<loadedLanguages, docText, docOpen, subscribed, now>>

\* documentTreeSync(document, {language, cache}) when parser.setLanguage
\* throws (line 1168): the grammar is loaded, the parser was made, and the
\* finally block runs before anything is parsed or looked up.
DocumentTreeSyncSetLanguageFails(d, optLanguage, cache) ==
  LET language == ResolvedLanguage(d, optLanguage) IN
  /\ IsLanguage(loadedLanguages[language])
  /\ RequestFails(d, IsCache(cache), "setLanguageFailed", FALSE)
  /\ parser' = Finally(NewParser(language, 0), op'.result)
  /\ UNCHANGED <<loadedLanguages, docText, docOpen, subscribed, now,
                 lastCache>>
  /\ UNCHANGED outsideCache

\* documentTreeSync(document, {language, cache, timeoutMs}) called directly.
DocumentTreeSync(d, optLanguage, cache, timeoutMs, parseOk) ==
  /\ DocumentTreeSyncCall(d, optLanguage, cache, timeoutMs, parseOk)
  /\ UNCHANGED outsideCache

\* ------------------------------------------------ onDidChangeTextDocument
\* JavaScript truthiness of a number.
Truthy(n) == n # 0

\* The condition of the `else if` of the change handler; the handler reads
\* Date.now() into `now` but the condition does not use it.
StaleNever(dirtyTimestamp, t) == FALSE

IsStale(dirtyTimestamp, t) == Truthy(dirtyTimestamp + StalenessWindowMs)

\* The clean-to-dirty transition that is never made.
MarkDirtyNever(state, t) == state

\* state.dirtyTimestamp = now
MarkDirty(state, t) == [state EXCEPT !.dirtyTimestamp = t]

\* A handler that marks a clean entry with the time of activation.
ChangeHandlerMarksStart(d) ==
  IF d \notin DOMAIN documentCache
    THEN UNCHANGED <<documentCache, trees, changedTree>>
  ELSE LET state == documentCache[d] IN
    /\ changedTree' =
         [changedTree EXCEPT ![d] = IF @ = NoHandle THEN state.tree ELSE @]
    /\ IF state.dirtyTimestamp = 0
         THEN /\ documentCache' =
                   [documentCache EXCEPT ![d] = MarkDirty(state, StartNow)]
              /\ UNCHANGED trees
       ELSE IF IsStale(state.dirtyTimestamp, now)
         THEN /\ trees' = TreeDelete(trees, {state.tree})
              /\ documentCache' = MapDelete(documentCache, d)
       ELSE UNCHANGED <<documentCache, trees>>

\* The handler registered at lines 695-710.
ChangeHandler(d) ==
  IF d \notin DOMAIN documentCache
    THEN UNCHANGED <<documentCache, trees, changedTree>>
  ELSE LET state == documentCache[d] IN
    /\ changedTree' =
         [changedTree EXCEPT ![d] = IF @ = NoHandle THEN state.tree ELSE @]
    /\ IF state.dirtyTimestamp = 0
         THEN /\ documentCache' =
                   [documentCache EXCEPT ![d] = MarkDirty(state, now)]
              /\ UNCHANGED trees
       ELSE IF IsStale(state.dirtyTimestamp, now)
         THEN /\ trees' = TreeDelete(trees, {state.tree})
              /\ documentCache' = MapDelete(documentCache, d)
       ELSE UNCHANGED <<documentCache, trees>>

\* The host changes an open document (possibly to the same text) and fires
\* the change event in the same turn; the handler runs while subscribed.
OnDidChangeTextDocument(d, text) ==
  /\ docOpen[d]
  /\ docText' = [docText EXCEPT ![d] = text]
  /\ IF subscribed THEN ChangeHandler(d)
                   ELSE UNCHANGED <<documentCache, trees, changedTree>>
  /\ prevRequest' = [prevRequest EXCEPT ![d] = NoHandle]
  /\ lastCache' = [lastCache EXCEPT ![d] = NoCache]
  /\ op' = Op(IF subscribed THEN "change" ELSE "edit", d, FALSE, "ok", "none",
              NoHandle, NoHandle, OldTree(d), OldTimestamp(d))
  /\ UNCHANGED <<loadedLanguages, callerTrees, docOpen, subscribed, now>>
  /\ parser' = NoParser
  /\ UNCHANGED outsideCache

\* ------------------------------------------------- onDidCloseTextDocument
\* A close handler that forgets to release the tree.
CloseHandlerLeak(d) ==
  /\ documentCache' = MapDelete(documentCache, d)
  /\ UNCHANGED trees

\* A close handler that drops every entry.
CloseHandlerAll(d) ==
  /\ trees' = TreeDelete(trees, {documentCache[e].tree : e \in DOMAIN documentCache})
  /\ documentCache' = EmptyMap

\* The handler registered at lines 711-719.
CloseHandler(d) ==
  IF d \notin DOMAIN documentCache
    THEN UNCHANGED <<documentCache, trees>>
  ELSE /\ trees' = TreeDelete(trees, {documentCache[d].tree})
       /\ documentCache' = MapDelete(documentCache, d)

\* The host closes an open document; the handler runs while subscribed.
OnDidCloseTextDocument(d) ==
  /\ docOpen[d]
  /\ docOpen' = [docOpen EXCEPT ![d] = FALSE]
  /\ IF subscribed THEN CloseHandler(d)
                   ELSE UNCHANGED <<documentCache, trees>>
  /\ prevRequest' = [prevRequest EXCEPT ![d] = NoHandle]
  /\ lastCache' = [lastCache EXCEPT ![d] = NoCache]
  /\ changedTree' = [changedTree EXCEPT ![d] = NoHandle]
  /\ op' = Op(IF subscribed THEN "close" ELSE "closed", d, FALSE, "ok", "none", NoHandle, NoHandle,
              OldTree(d), OldTimestamp(d))
  /\ UNCHANGED <<loadedLanguages, callerTrees, docText, subscribed, now>>
  /\ parser' = NoParser
  /\ UNCHANGED outsideCache

\* ---------------------------------------------------------- deactivation
\* The handles of all cache entries.
CachedTrees == {documentCache[d].tree : d \in DOMAIN documentCache}

\* A dispose() that leaves the grammar registry as it is.
DisposeKeepsGrammars ==
  /\ subscribed
  /\ subscribed' = FALSE
  /\ trees' = TreeDelete(trees, CachedTrees)
  /\ documentCache' = EmptyMap
  /\ prevRequest' = [d \in Docs |-> NoHandle]
  /\ lastCache' = [d \in Docs |-> NoCache]
  /\ changedTree' = [d \in Docs |-> NoHandle]
  /\ op' = Op("dispose", 0, FALSE, "ok", "none", NoHandle, NoHandle,
              NoHandle, 0)
  /\ UNCHANGED <<loadedLanguages, callerTrees, docText, docOpen, now>>
  /\ parser' = NoParser
  /\ UNCHANGED outsideCache

\* The dispose() of lines 836-856, called with the other subscriptions.
Dispose ==
  /\ subscribed
  /\ subscribed' = FALSE
  /\ loadedLanguages' = [l \in Languages |-> Undefined]
  /\ trees' = TreeDelete(trees, CachedTrees)
  /\ documentCache' = EmptyMap
  /\ prevRequest' = [d \in Docs |-> NoHandle]
  /\ lastCache' = [d \in Docs |-> NoCache]
  /\ changedTree' = [d \in Docs |-> NoHandle]
  /\ op' = Op("dispose", 0, FALSE, "ok", "none", NoHandle, NoHandle,
              NoHandle, 0)
  /\ UNCHANGED <<callerTrees, docText, docOpen, now>>
  /\ parser' = NoParser
  /\ UNCHANGED outsideCache

\* ------------------------------------------------------------ environment
\* A caller releases a tree it was given.
CallerDelete(h) ==
  /\ h \in callerTrees
  /\ trees' = TreeDelete(trees, {h})
  /\ callerTrees' = callerTrees \ {h}
  /\ op' = Op("callerDelete", 0, FALSE, "ok", "none", NoHandle, NoHandle, h, 0)
  /\ UNCHANGED <<documentCache, loadedLanguages, docText, docOpen, subscribed,
                 now, prevRequest, lastCache, changedTree>>
  /\ parser' = NoParser
  /\ UNCHANGED outsideCache

\* Time passes.
Tick ==
  /\ now < StartNow + MaxTicks * TickMs
  /\ now' = now + TickMs
  /\ op' = Op("tick", 0, FALSE, "ok", "none", NoHandle, NoHandle, NoHandle, 0)
  /\ UNCHANGED <<documentCache, loadedLanguages, trees, callerTrees, docText,
                 docOpen, subscribed, prevRequest, lastCache, changedTree>>
  /\ parser' = NoParser
  /\ UNCHANGED outsideCache

\* ----------------------------------------------------------- ensureLoaded
\* Lines 978-995 up to the first await: return when no language is given,
\* read the grammar file when the registry has no entry for the language,
\* otherwise await the entry.
AfterRuntime(p, language) ==
  /\ procs' =
       [procs EXCEPT ![p] =
          IF language = NoLanguage THEN Idle("ok")
          ELSE IF loadedLanguages[language] = Undefined
            THEN Suspended("readGrammar", language, Undefined)
          ELSE Suspended("awaitLanguage", language, loadedLanguages[language])]

\* The body of ensureLoaded up to its first await (lines 950-958).
EnsureLoadedCall(p, language) ==
  IF runtime # "ready"
    THEN procs' = [procs EXCEPT ![p] =
                     Suspended("readRuntime", language, Undefined)]
    ELSE AfterRuntime(p, language)

\* ensureLoaded(language?) is called by a caller that is not in a call.
EnsureLoaded(p, language) ==
  /\ procs[p].pc = "idle"
  /\ calls[p].pc = "idle"
  /\ EnsureLoadedCall(p, language)
  /\ UNCHANGED <<runtime, loads, loadedLanguages, op>>
  /\ UNCHANGED outsideLoad

\* The runtime file was read: WebAssembly.compile is awaited (line 954).
RuntimeRead(p) ==
  /\ procs[p].pc = "readRuntime"
  /\ procs' = [procs EXCEPT ![p].pc = "compileRuntime"]
  /\ UNCHANGED <<runtime, loads, loadedLanguages, op>>
  /\ UNCHANGED outsideLoad

\* The runtime module was compiled: TreeSitter.init is called and awaited
\* (line 960); the engine starts its initialisation on the first call only.
RuntimeCompiled(p) ==
  /\ procs[p].pc = "compileRuntime"
  /\ procs' = [procs EXCEPT ![p].pc = "initRuntime"]
  /\ runtime' = IF runtime = "none" THEN "pending" ELSE runtime
  /\ UNCHANGED <<loads, loadedLanguages, op>>
  /\ UNCHANGED outsideLoad

\* The engine finishes its initialisation: TreeSitter.Language is defined.
RuntimeInitialised ==
  /\ runtime = "pending"
  /\ runtime' = "ready"
  /\ UNCHANGED <<loads, loadedLanguages, procs, op>>
  /\ UNCHANGED outsideLoad

\* The await of TreeSitter.init resumes (line 976).
RuntimeAwaited(p) ==
  /\ procs[p].pc = "initRuntime"
  /\ runtime = "ready"
  /\ AfterRuntime(p, procs[p].language)
  /\ UNCHANGED <<runtime, loads, loadedLanguages, op>>
  /\ UNCHANGED outsideLoad

\* The grammar file was read: TreeSitter.Language.load is called and its
\* promise stored in the registry (lines 988-995).
GrammarRead(p) ==
  LET id == Len(loads) + 1
      language == procs[p].language
  IN
  /\ procs[p].pc = "readGrammar"
  /\ Len(loads) < MaxLoads
  /\ loads' = Append(loads, [language |-> language, state |-> "pending"])
  /\ loadedLanguages' = [loadedLanguages EXCEPT ![language] = PromiseOf(id)]
  /\ procs' = [procs EXCEPT ![p] =
                 Suspended("awaitLanguage", language, PromiseOf(id))]
  /\ UNCHANGED <<runtime, op>>
  /\ UNCHANGED outsideLoad

\* A load settles; on success the callback of line 990 stores the module.
LoadSettles(id, ok) ==
  /\ id \in DOMAIN loads
  /\ loads[id].state = "pending"
  /\ loads' = [loads EXCEPT ![id].state =
                 IF ok THEN "resolved" ELSE "rejected"]
  /\ loadedLanguages' =
       IF ok THEN [loadedLanguages EXCEPT ![loads[id].language] = ModuleOf(id)]
             ELSE loadedLanguages
  /\ UNCHANGED <<runtime, procs, op>>
  /\ UNCHANGED outsideLoad

\* The state of an awaited value: a module is ready at once, a promise when
\* its load has settled.
Settled(wait) ==
  IF wait.kind = "promise" THEN loads[wait.id].state ELSE "resolved"

\* A completion that swallows the rejection of the awaited load.
LanguageAwaitedSwallows(p) ==
  /\ procs[p].pc = "awaitLanguage"
  /\ Settled(procs[p].wait) # "pending"
  /\ procs' = [procs EXCEPT ![p] = Idle("ok")]
  /\ UNCHANGED <<runtime, loads, loadedLanguages, op>>
  /\ UNCHANGED outsideLoad

\* The await of line 995 resumes and ensureLoaded completes.
LanguageAwaited(p) ==
  /\ procs[p].pc = "awaitLanguage"
  /\ Settled(procs[p].wait) # "pending"
  /\ procs' = [procs EXCEPT ![p] =
       Idle(IF Settled(procs[p].wait) = "resolved" THEN "ok" ELSE "rejected")]
  /\ UNCHANGED <<runtime, loads, loadedLanguages, op>>
  /\ UNCHANGED outsideLoad

\* The steps of the ensureLoaded calls of the callers ps.
LoadNext(ps) ==
  \/ \E p \in ps, language \in Languages \cup {NoLanguage} :
       EnsureLoaded(p, language)
  \/ \E p \in ps : RuntimeRead(p)
  \/ \E p \in ps : RuntimeCompiled(p)
  \/ RuntimeInitialised
  \/ \E p \in ps : RuntimeAwaited(p)
  \/ \E p \in ps : GrammarRead(p)
  \/ \E id \in 1 .. MaxLoads, ok \in BOOLEAN : LoadSettles(id, ok)
  \/ \E p \in ps : LanguageAwaited(p)

\* ----------------------------------------------------------- documentTree
\* documentTree(document, options) is called: the deadline is computed and
\* ensureLoaded(document) runs up to its first await (lines 1133-1138).
DocumentTree(p, d, optLanguage, cache, timeoutMs) ==
  /\ procs[p].pc = "idle"
  /\ calls[p].pc = "idle"
  /\ calls' = [calls EXCEPT ![p] =
                 [pc |-> "awaitLoad", doc |-> d, optLanguage |-> optLanguage,
                  cache |-> cache, timeoutMs |-> timeoutMs,
                  deadline |-> IF HasTimeout(timeoutMs) THEN now + timeoutMs
                                                        ELSE 0,
                  result |-> "none"]]
  /\ EnsureLoadedCall(p, DetermineLanguage(d))
  /\ UNCHANGED <<runtime, loads, loadedLanguages, op>>
  /\ UNCHANGED <<cacheVars, usingVars, determination, helperVars>>

\* The awaited ensureLoaded rejected: documentTree rejects with its error.
DocumentTreeLoadFailed(p) ==
  /\ op' = Op("documentTree", calls[p].doc, IsCache(calls[p].cache), "loadFailed",
              "none", NoHandle, NoHandle, OldTree(calls[p].doc),
              OldTimestamp(calls[p].doc))
  /\ parser' = NoParser
  /\ UNCHANGED <<documentCache, loadedLanguages, trees, callerTrees, docText,
                 docOpen, subscribed, now, prevRequest, lastCache, changedTree>>

\* A timeout that also drops the registry entry of the awaited grammar.
DocumentTreeTimeoutCancels(p) ==
  /\ op' = Op("documentTree", calls[p].doc, IsCache(calls[p].cache), "timeout",
              "none", NoHandle, NoHandle, OldTree(calls[p].doc),
              OldTimestamp(calls[p].doc))
  /\ parser' = NoParser
  /\ loadedLanguages' =
       [loadedLanguages EXCEPT ![DetermineLanguage(calls[p].doc)] = Undefined]
  /\ UNCHANGED <<documentCache, trees, callerTrees, docText,
                 docOpen, subscribed, now, prevRequest, lastCache, changedTree>>

\* throw new Error("timeout") (line 1144).
DocumentTreeTimeout(p) ==
  /\ op' = Op("documentTree", calls[p].doc, IsCache(calls[p].cache), "timeout",
              "none", NoHandle, NoHandle, OldTree(calls[p].doc),
              OldTimestamp(calls[p].doc))
  /\ parser' = NoParser
  /\ UNCHANGED <<documentCache, loadedLanguages, trees, callerTrees, docText,
                 docOpen, subscribed, now, prevRequest, lastCache, changedTree>>

\* A deadline test that never fires.
DeadlineNever(t, deadline) == FALSE

\* now >= deadline (line 1143)
DeadlineReached(t, deadline) == t >= deadline

\* The timeoutMs of the options given to documentTreeSync: `now - deadline`
\* when there is a deadline (line 1147), the caller's value otherwise.
TimeoutMsAfterLoad(call, t) ==
  IF call.deadline # 0 THEN t - call.deadline ELSE call.timeoutMs

\* The await of line 1138 resumes: lines 1140-1150.
DocumentTreeResumes(p, parseOk) ==
  LET call == calls[p] IN
  /\ call.pc = "awaitLoad"
  /\ procs[p].pc = "idle"
  /\ IF procs[p].result = "rejected"
       THEN DocumentTreeLoadFailed(p)
     ELSE IF call.deadline # 0 /\ DeadlineReached(now, call.deadline)
       THEN DocumentTreeTimeout(p)
     ELSE DocumentTreeSyncCall(call.doc, call.optLanguage, call.cache,
                               TimeoutMsAfterLoad(call, now), parseOk)
  /\ calls' = [calls EXCEPT ![p] = NoCall(op'.result)]
  /\ UNCHANGED <<loadVars, usingVars, determination, helperVars>>

\* ------------------------------------------------------------------ using
\* The argument lists of `using`: up to MaxArgs handles, repeats allowed.
ArgLists == UNION {[1 .. n -> Objects] : n \in 0 .. MaxArgs}

\* for (const arg of args) arg.delete()
DeleteArgs(released, args) ==
  [o \in Objects |->
     released[o] + Cardinality({i \in DOMAIN args : args[i] = o})]

\* result == null || typeof result.then !== "function"
IsThenable(k) == k = "thenable"

\* using(...args, f) is called (lines 1297-1332 up to the await): f throws,
\* returns null, returns a plain value or returns a thenable.
Using(args, k) ==
  /\ usingCall.pc \in {"idle", "done"}
  /\ IF k = "throws"
       THEN /\ usingCall' =
                 [pc |-> "done", args |-> args, k |-> k, outcome |-> "thrown",
                  released |-> DeleteArgs(NoUsing.released, args)]
            /\ outcomes' = outcomes \cup {"thrown"}
     ELSE IF ~IsThenable(k)
       THEN /\ usingCall' =
                 [pc |-> "done", args |-> args, k |-> k,
                  outcome |-> "returned",
                  released |-> DeleteArgs(NoUsing.released, args)]
            /\ outcomes' = outcomes \cup {"returned"}
     ELSE /\ usingCall' =
               [pc |-> "pending", args |-> args, k |-> k, outcome |-> "none",
                released |-> NoUsing.released]
          /\ UNCHANGED outcomes
  /\ UNCHANGED outsideUsing

\* The pending result of the continuation settles.
ThenableSettles(ok) ==
  /\ usingCall.pc = "pending"
  /\ usingCall' = [usingCall EXCEPT !.pc = "settled",
                                    !.outcome =
                                       IF ok THEN "resolved" ELSE "rejected"]
  /\ UNCHANGED outcomes
  /\ UNCHANGED outsideUsing

\* An asynchronous part that releases only after a fulfilled result.
UsingResumesWithoutFinally ==
  /\ usingCall.pc = "settled"
  /\ usingCall' = [usingCall EXCEPT !.pc = "done",
                                    !.released =
                                       IF usingCall.outcome = "resolved"
                                         THEN DeleteArgs(@, usingCall.args)
                                         ELSE @]
  /\ outcomes' = outcomes \cup {usingCall.outcome}
  /\ UNCHANGED outsideUsing

\* The await of line 1326 resumes and the finally block releases the handles.
UsingResumes ==
  /\ usingCall.pc = "settled"
  /\ usingCall' = [usingCall EXCEPT !.pc = "done",
                                    !.released = DeleteArgs(@, usingCall.args)]
  /\ outcomes' = outcomes \cup {usingCall.outcome}
  /\ UNCHANGED outsideUsing

NextUsing ==
  \/ \E args \in ArgLists, k \in {"throws", "null", "value", "thenable"} :
       Using(args, k)
  \/ \E ok \in BOOLEAN : ThenableSettles(ok)
  \/ UsingResumes

\* Calls of the scoped-access helper, one at a time.
SpecUsing == Init /\ [][NextUsing]_vars

\* ------------------------------------------------- makeWith, makeSyncWith
AsyncHelpers == {"withDocumentTree", "withQuery"}
SyncHelpers == {"withDocumentTreeSync", "withQuerySync"}

\* What a continuation does when it is invoked: throw, return a value,
\* return a pending promise, or (as the test's continuation does) call
\* withQuery and await it.
Continuations == {"throws", "value", "pending", "nested"}

\* A top-level call may begin when the previous one is over.
WithOver ==
  \A i \in WithFrames : withCalls[i].pc \in {"idle", "done"}

\* A helper made by makeWith is called (lines 1399-1401): f(...args) is
\* called and its promise awaited.
WithCall(helper, k) ==
  /\ WithOver
  /\ withCalls' =
       [i \in WithFrames |->
          IF i = Outer THEN [NoWith EXCEPT !.pc = "acquiring",
                                           !.helper = helper, !.k = k]
                       ELSE NoWith]
  /\ releaseLog' = <<>>
  /\ UNCHANGED outsideWith

\* A makeWith that releases the resource as soon as k has returned.
AfterAcquiredReleasesEarly(frame, ok) ==
  IF ~ok
    THEN [frame EXCEPT !.pc = "done", !.outcome = "failed"]
  ELSE IF frame.k = "throws"
    THEN [frame EXCEPT !.pc = "done", !.obtained = TRUE, !.invoked = 1,
                       !.released = 1, !.kOutcome = "thrown",
                       !.outcome = "rejected"]
  ELSE IF frame.k = "value"
    THEN [frame EXCEPT !.pc = "settled", !.obtained = TRUE, !.invoked = 1,
                       !.released = 1, !.kOutcome = "resolved"]
  ELSE [frame EXCEPT !.pc = "pending", !.obtained = TRUE, !.invoked = 1,
                     !.released = 1]

\* The frame as the await of line 1401 leaves it when f's promise settled:
\* on a rejection the call ends at once; otherwise k(result) is called (line
\* 1404) and either throws, so that the finally block runs, or returns
\* something that is awaited.
AfterAcquired(frame, ok) ==
  IF ~ok
    THEN [frame EXCEPT !.pc = "done", !.outcome = "failed"]
  ELSE IF frame.k = "throws"
    THEN [frame EXCEPT !.pc = "done", !.obtained = TRUE, !.invoked = 1,
                       !.released = 1, !.kOutcome = "thrown",
                       !.outcome = "rejected"]
  ELSE IF frame.k = "value"
    THEN [frame EXCEPT !.pc = "settled", !.obtained = TRUE, !.invoked = 1,
                       !.kOutcome = "resolved"]
  ELSE [frame EXCEPT !.pc = "pending", !.obtained = TRUE, !.invoked = 1]

\* The promise of f settles and the call resumes.  A continuation that
\* nests calls withQuery, with continuation k2, before it first suspends.
WithAcquired(i, ok, k2) ==
  LET frame == AfterAcquired(withCalls[i], ok) IN
  /\ withCalls[i].pc = "acquiring"
  /\ withCalls[i].k = "nested" => i = Outer
  /\ withCalls' =
       [j \in WithFrames |->
          IF j = i THEN frame
          ELSE IF j = Nested /\ ok /\ withCalls[i].k = "nested"
            THEN [NoWith EXCEPT !.pc = "acquiring", !.helper = "withQuery",
                                !.k = k2]
          ELSE withCalls[j]]
  /\ releaseLog' = IF frame.released > withCalls[i].released
                     THEN Append(releaseLog, i) ELSE releaseLog
  /\ UNCHANGED outsideWith

\* The pending result of the continuation settles; that of a continuation
\* awaiting a nested call settles as the nested call ended.
WithContinuationSettles(i, ok) ==
  /\ withCalls[i].pc = "pending"
  /\ withCalls[i].k = "nested" =>
       /\ withCalls[Nested].pc = "done"
       /\ ok = (withCalls[Nested].outcome = "resolved")
  /\ withCalls' =
       [withCalls EXCEPT ![i].pc = "settled",
                         ![i].kOutcome =
                            IF ok THEN "resolved" ELSE "rejected"]
  /\ UNCHANGED releaseLog
  /\ UNCHANGED outsideWith

\* A resumption that forgets to release.
WithResumesKeeps(i) ==
  /\ withCalls[i].pc = "settled"
  /\ withCalls' =
       [withCalls EXCEPT ![i].pc = "done",
                         ![i].outcome = withCalls[i].kOutcome]
  /\ UNCHANGED releaseLog
  /\ UNCHANGED outsideWith

\* A resumption that resolves whatever the continuation's result did.
WithResumesSwallows(i) ==
  /\ withCalls[i].pc = "settled"
  /\ withCalls' =
       [withCalls EXCEPT ![i].pc = "done",
                         ![i].released = @ + 1,
                         ![i].outcome = "resolved"]
  /\ releaseLog' = Append(releaseLog, i)
  /\ UNCHANGED outsideWith

\* The await of line 1404 resumes: the finally block calls result.delete()
\* (line 1406) and the call ends as the awaited result did.
WithResumes(i) ==
  /\ withCalls[i].pc = "settled"
  /\ withCalls' =
       [withCalls EXCEPT ![i].pc = "done",
                         ![i].released = @ + 1,
                         ![i].outcome = withCalls[i].kOutcome]
  /\ releaseLog' = Append(releaseLog, i)
  /\ UNCHANGED outsideWith

\* A helper made by makeSyncWith is called (lines 1411-1424): f(...args)
\* throws, or k(result) is called and result.delete() follows whatever k
\* did, also when k returned a pending promise.
WithSyncCall(helper, ok, k) ==
  /\ WithOver
  /\ withCalls' =
       [i \in WithFrames |->
          IF i # Outer THEN NoWith
          ELSE IF ~ok
            THEN [NoWith EXCEPT !.pc = "done", !.helper = helper, !.k = k,
                                !.outcome = "failed"]
          ELSE [NoWith EXCEPT !.pc = "done", !.helper = helper, !.k = k,
                              !.obtained = TRUE, !.invoked = 1,
                              !.released = 1,
                              !.kOutcome = IF k = "throws" THEN "thrown"
                                           ELSE IF k = "value" THEN "returned"
                                           ELSE "pending",
                              !.outcome = IF k = "throws" THEN "thrown"
                                          ELSE "returned"]]
  /\ releaseLog' = IF ok THEN <<Outer>> ELSE <<>>
  /\ UNCHANGED outsideWith

NextWith ==
  \/ \E helper \in AsyncHelpers, k \in Continuations : WithCall(helper, k)
  \/ \E i \in WithFrames, ok \in BOOLEAN,
        k2 \in Continuations \ {"nested"} : WithAcquired(i, ok, k2)
  \/ \E i \in WithFrames, ok \in BOOLEAN : WithContinuationSettles(i, ok)
  \/ \E i \in WithFrames : WithResumes(i)
  \/ \E helper \in SyncHelpers, ok \in BOOLEAN,
        k \in Continuations \ {"nested"} : WithSyncCall(helper, ok, k)

\* Calls of the with-helpers, one top-level call at a time.
SpecWith == Init /\ [][NextWith]_vars

\* Calls of `using` next to calls of the with-helpers.
NextScoped == NextUsing \/ NextWith

SpecScoped == Init /\ [][NextScoped]_vars

\* ---------------------------------------------------------- inspect-scopes
\* `texts === undefined`, as a number: the texts of update g are g.
UndefinedTexts == 0

\* updateItem() (lines 746-812) up to its first suspension: cts.dispose() on
\* the previous source, a new source and token, and the asynchronous
\* function, which returns undefined at once when there is no active
\* editor and otherwise awaits withDocumentTree.  Whether the host's
\* dispose() requests cancellation of the old token is the host's business
\* (the extension never calls cancel()), so both outcomes are drawn.
UpdateItem(editor, disposeCancels) ==
  LET n == Len(inspect.updates)
      disposed ==
        [g \in 1 .. n |->
           IF g = n /\ disposeCancels
             THEN [inspect.updates[g] EXCEPT !.cancelled = TRUE]
             ELSE inspect.updates[g]]
  IN
  /\ n < MaxUpdates
  /\ inspect' =
       [inspect EXCEPT
          !.updates =
             Append(disposed,
                    [pc |-> IF editor THEN "loading" ELSE "computed",
                     cancelled |-> FALSE, texts |-> UndefinedTexts,
                     error |-> FALSE])]
  /\ UNCHANGED outsideInspect

\* withDocumentTree of update g settles: on success the continuation (lines
\* 766-786) returns undefined when the token is cancelled and the scopes
\* otherwise; on failure the catch block makes the error texts.
InspectTreeSettles(g, ok) ==
  /\ g \in 1 .. Len(inspect.updates)
  /\ inspect.updates[g].pc = "loading"
  /\ inspect' =
       [inspect EXCEPT
          !.updates[g].pc = "computed",
          !.updates[g].error = ~ok,
          !.updates[g].texts =
             IF ok /\ inspect.updates[g].cancelled THEN UndefinedTexts
                                                   ELSE g]
  /\ UNCHANGED outsideInspect

\* The then-callback of update g (lines 790-811): hide the item when the
\* texts are undefined, otherwise set its text and show it.
InspectThen(g) ==
  /\ g \in 1 .. Len(inspect.updates)
  /\ inspect.updates[g].pc = "computed"
  /\ inspect' =
       [inspect EXCEPT
          !.updates[g].pc = "done",
          !.item =
             IF inspect.updates[g].texts = UndefinedTexts
               THEN [@ EXCEPT !.visible = FALSE]
               ELSE [visible |-> TRUE, text |-> inspect.updates[g].texts,
                     error |-> inspect.updates[g].error]]
  /\ UNCHANGED outsideInspect

NextInspect ==
  \/ \E editor \in BOOLEAN, disposeCancels \in BOOLEAN :
       UpdateItem(editor, disposeCancels)
  \/ \E g \in 1 .. MaxUpdates, ok \in BOOLEAN : InspectTreeSettles(g, ok)
  \/ \E g \in 1 .. MaxUpdates : InspectThen(g)

\* The scope-inspection display, with up to MaxUpdates updates in flight.
SpecInspect == Init /\ [][NextInspect]_vars

\* ------------------------------------- finalization (earlier revision)
\* treeToDocumentTree(tree, document, language) (lines 571-621): a frozen
\* wrapper around the native tree, registered with the finalization
\* registry under that tree.
TreeToDocumentTree(tree) ==
  [tree |-> tree, reachable |-> TRUE, finalized |-> FALSE]

\* The clean branch of the earlier documentTreeSync (line 426):
\* `tree = state.tree`, the handle of the entry itself.
EarlierCacheHit(d) ==
  LET state == documentCache[d] IN
  /\ prevRequest' = [prevRequest EXCEPT ![d] = state.tree]
  /\ changedTree' = [changedTree EXCEPT ![d] = NoHandle]
  /\ op' = Op("documentTreeSync", d, TRUE, "ok", "none", NoHandle,
              state.tree, state.tree, 0)
  /\ UNCHANGED <<documentCache, trees, callerTrees>>

\* documentTreeSync(document, {cache}) of the earlier revision (lines
\* 393-430): it has no timeout, its other branches are those of the later
\* revision, and it returns a new wrapper of the tree it chose.
EarlierDocumentTreeSync(d, cache) ==
  LET language == ResolvedLanguage(d, NoLanguage) IN
  /\ subscribed
  /\ Len(trees) + 2 <= MaxHandles
  /\ Len(wrappers) < MaxWrappers
  /\ parser' = IF IsLanguage(loadedLanguages[language])
                 THEN NewParser(language, 0)
                 ELSE NotLoaded(language, loadedLanguages[language])
  /\ IF ~IsLanguage(loadedLanguages[language])
        THEN RequestFails(d, IsCache(cache), "notLoaded", FALSE)
      ELSE IF IsCache(cache)
        THEN IF d \notin DOMAIN documentCache THEN CacheMiss(d, language)
             ELSE IF IsDirty(documentCache[d]) THEN CacheReparse(d, language)
             ELSE EarlierCacheHit(d)
      ELSE Uncached(d, language)
  /\ lastCache' = IF IsCache(cache) /\ op'.result = "ok"
                    THEN [lastCache EXCEPT ![d] = cache]
                    ELSE lastCache
  /\ wrappers' = IF op'.result = "ok"
                   THEN Append(wrappers, TreeToDocumentTree(op'.ret))
                   ELSE wrappers
  /\ UNCHANGED <<loadedLanguages, docText, docOpen, subscribed, now>>
  /\ UNCHANGED outsideWrappers

\* The caller drops its last reference to a wrapper without releasing
\* anything.
WrapperDropped(w) ==
  /\ w \in DOMAIN wrappers
  /\ wrappers[w].reachable
  /\ wrappers' = [wrappers EXCEPT ![w].reachable = FALSE]
  /\ UNCHANGED <<cacheVars, loadedLanguages, op>>
  /\ UNCHANGED outsideWrappers

\* The callback of the finalization registry (lines 384-386) runs for an
\* unreachable wrapper: delete() on the tree it was registered with.
Finalize(w) ==
  /\ w \in DOMAIN wrappers
  /\ ~wrappers[w].reachable
  /\ ~wrappers[w].finalized
  /\ wrappers' = [wrappers EXCEPT ![w].finalized = TRUE]
  /\ trees' = TreeDelete(trees, {wrappers[w].tree})
  /\ op' = Op("finalize", 0, FALSE, "ok", "none", NoHandle, NoHandle,
              wrappers[w].tree, 0)
  /\ parser' = NoParser
  /\ UNCHANGED <<documentCache, callerTrees, docText, docOpen, subscribed,
                 now, prevRequest, lastCache, changedTree, loadedLanguages>>
  /\ UNCHANGED outsideWrappers

NextFinal ==
  \/ \E d \in Docs, cache \in {NoCache, FirstCache} :
       EarlierDocumentTreeSync(d, cache)
  \/ \E d \in Docs, text \in Texts : OnDidChangeTextDocument(d, text)
  \/ \E w \in 1 .. MaxWrappers : WrapperDropped(w)
  \/ \E w \in 1 .. MaxWrappers : Finalize(w)

\* Tree requests of the earlier revision whose wrappers become garbage.
SpecFinal == InitLoaded /\ [][NextFinal]_vars

\* ------------------------------------------------------ determineLanguage
\* The state after activate(), with some string about to be resolved.
InitString ==
  /\ documentCache = EmptyMap
  /\ loadedLanguages = [l \in Languages |-> Undefined]
  /\ trees = <<>>
  /\ callerTrees = {}
  /\ docText = [d \in Docs |-> 1]
  /\ docOpen = [d \in Docs |-> TRUE]
  /\ subscribed = TRUE
  /\ now = StartNow
  /\ op = Op("activate", 0, FALSE, "ok", "none", NoHandle, NoHandle, NoHandle, 0)
  /\ prevRequest = [d \in Docs |-> NoHandle]
  /\ lastCache = [d \in Docs |-> NoCache]
  /\ changedTree = [d \in Docs |-> NoHandle]
  /\ runtime = "none"
  /\ loads = <<>>
  /\ procs = [p \in Procs |-> Idle("none")]
  /\ usingCall = NoUsing
  /\ outcomes = {}
  /\ parser = NoParser
  /\ calls = [p \in Procs |-> NoCall("none")]
  /\ \E input \in Strings : determination = Undetermined(input)
  /\ HelpersIdle

\* determineLanguage(input) and determineLanguageOrFail(input) are called.
Determine ==
  /\ determination.language = "pending"
  /\ determination' = Determined(determination.input)
  /\ UNCHANGED outsideDetermine

NextString == Determine

\* The two functions applied to every string of up to MaxPathLen characters.
SpecString == InitString /\ [][NextString]_vars

\* ---------------------------------------------------- toRange, importRange
\* The state after activate(), with some native range about to be converted.
InitRange ==
  /\ documentCache = EmptyMap
  /\ loadedLanguages = [l \in Languages |-> Undefined]
  /\ trees = <<>>
  /\ callerTrees = {}
  /\ docText = [d \in Docs |-> 1]
  /\ docOpen = [d \in Docs |-> TRUE]
  /\ subscribed = TRUE
  /\ now = StartNow
  /\ op = Op("activate", 0, FALSE, "ok", "none", NoHandle, NoHandle, NoHandle, 0)
  /\ prevRequest = [d \in Docs |-> NoHandle]
  /\ lastCache = [d \in Docs |-> NoCache]
  /\ changedTree = [d \in Docs |-> NoHandle]
  /\ runtime = "none"
  /\ loads = <<>>
  /\ procs = [p \in Procs |-> Idle("none")]
  /\ usingCall = NoUsing
  /\ outcomes = {}
  /\ parser = NoParser
  /\ calls = [p \in Procs |-> NoCall("none")]
  /\ determination = Undetermined(<<>>)
  /\ \E native \in NativeRanges : conversion = Unconverted(native)
  /\ WithIdle
  /\ InspectIdle
  /\ wrappers = <<>>

\* toRange(node) is called.
CallToRange ==
  /\ conversion.by = "none"
  /\ conversion' = Converted(conversion.native, "toRange",
                             ToRange(conversion.native))
  /\ UNCHANGED outsideConversion

\* importRange(range) is called.
CallImportRange ==
  /\ conversion.by = "none"
  /\ conversion' = Converted(conversion.native, "importRange",
                             ImportRange(conversion.native))
  /\ UNCHANGED outsideConversion

NextRange == CallToRange \/ CallImportRange

\* The two conversions applied to every native range within the bounds.
SpecRange == InitRange /\ [][NextRange]_vars

\* The operations on the document cache.
CacheNext ==
  \/ \E d \in Docs, optLanguage \in Languages \cup {NoLanguage},
        cache \in {NoCache, FirstCache}, timeoutMs \in {0, SomeTimeoutMs},
        parseOk \in BOOLEAN :
       DocumentTreeSync(d, optLanguage, cache, timeoutMs, parseOk)
  \/ \E d \in Docs, text \in Texts : OnDidChangeTextDocument(d, text)
  \/ \E d \in Docs : OnDidCloseTextDocument(d)
  \/ Dispose
  \/ \E h \in 1 .. MaxHandles : CallerDelete(h)
  \/ Tick

\* The document cache, with the grammars loaded beforehand.
Next == CacheNext

Spec == InitLoaded /\ [][Next]_vars

\* Callers that each made their own Cache instance ask for trees with no
\* other option, while documents change and the callers release trees.
NextTokens ==
  \/ \E d \in Docs, cache \in Caches \cup {NoCache} :
       DocumentTreeSync(d, NoLanguage, cache, 0, TRUE)
  \/ \E d \in Docs, text \in Texts : OnDidChangeTextDocument(d, text)
  \/ \E h \in 1 .. MaxHandles : CallerDelete(h)

SpecTokens == InitLoaded /\ [][NextTokens]_vars

\* The operations on the document cache, with requests whose parser
\* rejects the grammar.
NextParser ==
  \/ CacheNext
  \/ \E d \in Docs, optLanguage \in Languages \cup {NoLanguage},
        cache \in {NoCache, FirstCache} :
       DocumentTreeSyncSetLanguageFails(d, optLanguage, cache)

SpecParser == InitLoaded /\ [][NextParser]_vars

\* Concurrent ensureLoaded calls.
NextLoad == LoadNext(Procs)

SpecLoad == Init /\ [][NextLoad]_vars

\* The event loop runs the continuation of an await whose promise settled.
SpecLoadFair ==
  SpecLoad /\ \A p \in Procs : WF_vars(LanguageAwaited(p))

\* The state after activate() and a completed ensureLoaded(): the runtime
\* is ready and no grammar is loaded.
InitReady == InitLoaded /\ loads = <<>>

\* The caller that makes documentTree calls and the callers that call
\* ensureLoaded themselves.
TreeCallers == {1}
LoadCallers == Procs \ TreeCallers

\* documentTree calls of one caller, with any options, next to ensureLoaded
\* calls of the others and to documentTreeSync calls without options other
\* than a timeout, while time passes.
NextTree ==
  \/ \E p \in TreeCallers, d \in Docs,
        optLanguage \in Languages \cup {NoLanguage},
        cache \in {NoCache, FirstCache}, timeoutMs \in {0, SomeTimeoutMs} :
       DocumentTree(p, d, optLanguage, cache, timeoutMs)
  \/ \E p \in TreeCallers, parseOk \in BOOLEAN : DocumentTreeResumes(p, parseOk)
  \/ \E d \in Docs, timeoutMs \in {0, SomeTimeoutMs} :
       DocumentTreeSync(d, NoLanguage, NoCache, timeoutMs, TRUE)
  \/ \E p \in LoadCallers, language \in Languages : EnsureLoaded(p, language)
  \/ \E p \in Procs : GrammarRead(p)
  \/ \E id \in 1 .. MaxLoads, ok \in BOOLEAN : LoadSettles(id, ok)
  \/ \E p \in Procs : LanguageAwaited(p)
  \/ Tick

SpecTree == InitReady /\ [][NextTree]_vars

\* documentTree(document, {cache}) is called for a document that is open.
DocumentTreeOfOpen(p, d) ==
  /\ docOpen[d]
  /\ DocumentTree(p, d, NoLanguage, FirstCache, 0)

\* Cache-aware documentTree calls for open documents, without other
\* options, while grammars load and documents are closed.
NextClose ==
  \/ \E p \in Procs, d \in Docs : DocumentTreeOfOpen(p, d)
  \/ \E p \in Procs : DocumentTreeResumes(p, TRUE)
  \/ \E p \in Procs : GrammarRead(p)
  \/ \E id \in 1 .. MaxLoads, ok \in BOOLEAN : LoadSettles(id, ok)
  \/ \E p \in Procs : LanguageAwaited(p)
  \/ \E d \in Docs : OnDidCloseTextDocument(d)

SpecClose == InitReady /\ [][NextClose]_vars

\* ------------------------------------------------------------ properties
\* The step is a cache-aware request for d that returned a tree.
Served(d) ==
  /\ op'.kind = "documentTreeSync"
  /\ op'.doc = d
  /\ op'.cache
  /\ op'.result = "ok"

\* C1: for a document whose text is unchanged, of two consecutive
\* cache-aware requests the first, finding no entry, performs one full parse
\* and the second performs no parse and returns a new tree whose content is
\* the one of the cached tree and of the tree the first request returned.
C1_Step ==
  \A d \in Docs :
    Served(d) =>
      /\ d \notin DOMAIN documentCache =>
            op'.parse = "full" /\ op'.seed = NoHandle
      /\ prevRequest[d] # NoHandle =>
            /\ d \in DOMAIN documentCache
            /\ op'.parse = "none"
            /\ op'.ret \notin DOMAIN trees
            /\ trees'[op'.ret].text = trees[documentCache[d].tree].text
            /\ trees'[op'.ret].text = docText[d]
            /\ trees[prevRequest[d]].deleted = 0 =>
                  trees'[op'.ret].text = trees[prevRequest[d]].text

C1_SecondRequestDoesNotParse == [][C1_Step]_vars

\* The second of two consecutive requests was served from the entry.
C1_Witness ==
  /\ op.kind = "documentTreeSync" /\ op.cache /\ op.result = "ok"
  /\ op.parse = "none"
  /\ op.ret > 2
  /\ trees[op.ret].text = docText[op.doc]

\* C2: after one or more change notifications for a document with an entry
\* (and no close), the next cache-aware request performs one incremental
\* reparse seeded with the previously cached tree, never a full parse.
C2_Step ==
  \A d \in Docs :
    Served(d) /\ changedTree[d] # NoHandle =>
      op'.parse = "incremental" /\ op'.seed = changedTree[d]

C2_ReparseAfterChanges == [][C2_Step]_vars

\* The number of TreeSitter.Language.load invocations for a language.
LoadCalls(language) ==
  Cardinality({id \in DOMAIN loads : loads[id].language = language})

\* C3: ensureLoaded calls that overlap in time for the same language invoke
\* TreeSitter.Language.load once, under every interleaving.
C3_SingleFlight == \A l \in Languages : LoadCalls(l) <= 1

\* C4: when a call of `using` has ended, by a plain return, a throw, a
\* fulfilled or a rejected result, it has called delete() once for every
\* handle passed to it: once on an object passed once, and never on an
\* object that was not passed.
C4_UsingReleasesOnce ==
  usingCall.pc = "done" =>
    \A o \in Objects :
      usingCall.released[o] =
        Cardinality({i \in DOMAIN usingCall.args : usingCall.args[i] = o})

\* Calls have ended in each of the four ways, the last one after a rejected
\* result, with two distinct handles.
C4_Witness ==
  /\ outcomes = {"returned", "thrown", "resolved", "rejected"}
  /\ usingCall.pc = "done"
  /\ usingCall.outcome = "rejected"
  /\ usingCall.args = <<1, 2>>
  /\ usingCall.released = [o \in Objects |-> IF o \in {1, 2} THEN 1 ELSE 0]

\* C5: a tree returned by a cache-aware request is a new handle, never the
\* handle of a cache entry nor one returned before, and a caller releasing
\* its tree leaves the handle of every entry unreleased.
C5_Step ==
  /\ \A d \in Docs : Served(d) => op'.ret \notin DOMAIN trees
  /\ \A d \in DOMAIN documentCache' :
       /\ documentCache'[d].tree \notin callerTrees'
       /\ trees'[documentCache'[d].tree].role = "cache"
  /\ \A h \in callerTrees' : trees'[h].role # "cache"
  /\ op'.kind = "callerDelete" =>
       /\ documentCache' = documentCache
       /\ \A d \in DOMAIN documentCache :
            /\ trees'[documentCache[d].tree] = trees[documentCache[d].tree]
            /\ trees'[documentCache[d].tree].deleted = 0

C5_CallersOwnTheirTrees == [][C5_Step]_vars

\* A caller released the tree of a cache-aware request while an entry exists.
C5_Witness ==
  /\ op.kind = "callerDelete"
  /\ trees[op.old].role = "caller"
  /\ trees[op.old].deleted = 1
  /\ documentCache # EmptyMap

\* C6: the handle of every entry is unreleased; every handle that has left
\* the cache was released exactly once; the handle of an existing entry
\* changes only in an incremental reparse, which releases the old handle
\* once and stores a new one; a stored tree is never changed in place.
C6_Inv ==
  /\ \A d \in DOMAIN documentCache : documentCache[d].tree \in DOMAIN trees
  /\ \A d, e \in DOMAIN documentCache :
       d # e => documentCache[d].tree # documentCache[e].tree
  /\ \A h \in DOMAIN trees :
       trees[h].role = "cache" =>
         trees[h].deleted = (IF h \in CachedTrees THEN 0 ELSE 1)

C6_Step ==
  \A d \in DOMAIN documentCache \cap DOMAIN documentCache' :
    LET old == documentCache[d].tree
        new == documentCache'[d].tree
    IN IF old = new
         THEN trees'[old] = trees[old]
         ELSE /\ Served(d)
              /\ op'.parse = "incremental"
              /\ op'.seed = old
              /\ new \notin DOMAIN trees
              /\ trees[old].deleted = 0
              /\ trees'[old].deleted = 1

C6_EntryHandlesAreLive == []C6_Inv /\ [][C6_Step]_vars

\* An incremental reparse has replaced the handle of an entry.
C6_Witness ==
  /\ op.kind = "documentTreeSync" /\ op.result = "ok"
  /\ op.parse = "incremental"
  /\ trees[op.seed].deleted = 1
  /\ documentCache[op.doc].tree # op.seed

\* C7: while the handlers are registered, a clean entry holds a tree parsed
\* from the current text of its document, and a cache-aware request returns
\* a tree of the current text, never a copy of a tree of an older text.
C7_CleanEntriesAreCurrent ==
  subscribed =>
    /\ \A d \in DOMAIN documentCache :
         documentCache[d].dirtyTimestamp = 0 =>
           trees[documentCache[d].tree].text = docText[d]
    /\ op.kind = "documentTreeSync" /\ op.cache /\ op.result = "ok" =>
         trees[op.ret].text = docText[op.doc]

\* A request after a change of the text was answered with the new text.
C7_Witness ==
  /\ subscribed
  /\ op.kind = "documentTreeSync" /\ op.cache /\ op.result = "ok"
  /\ op.oldTs # 0
  /\ docText[op.doc] # 1
  /\ trees[op.ret].text = docText[op.doc]

\* C8: a change notification for an entry that has been dirty for longer
\* than the staleness window removes the entry and releases its handle once.
C8_Step ==
  \A d \in DOMAIN documentCache :
    LET state == documentCache[d] IN
    (/\ op'.kind = "change" /\ op'.doc = d
     /\ state.dirtyTimestamp # 0
     /\ now - state.dirtyTimestamp > StalenessWindowMs)
    => /\ d \notin DOMAIN documentCache'
       /\ trees[state.tree].deleted = 0
       /\ trees'[state.tree].deleted = 1

C8_StaleEntryIsEvicted == [][C8_Step]_vars

\* A change notification found an entry dirty for longer than the window.
C8_Witness ==
  /\ op.kind = "change"
  /\ op.old # NoHandle
  /\ op.oldTs # 0
  /\ now - op.oldTs > StalenessWindowMs
  /\ op.doc \notin DOMAIN documentCache
  /\ trees[op.old].deleted = 1

\* C9: a change notification for an entry that has been dirty for less than
\* the staleness window keeps the entry, its handle unreleased and its
\* first-dirty timestamp.
C9_Step ==
  \A d \in DOMAIN documentCache :
    LET state == documentCache[d] IN
    (/\ op'.kind = "change" /\ op'.doc = d
     /\ state.dirtyTimestamp # 0
     /\ now - state.dirtyTimestamp < StalenessWindowMs)
    => /\ d \in DOMAIN documentCache'
       /\ documentCache'[d] = state
       /\ trees'[state.tree].deleted = 0

C9_FreshDirtyEntryIsKept == [][C9_Step]_vars

\* C10: a handled close event removes the entry of the document, if any,
\* and releases its handle once; without an entry it changes nothing; the
\* entries of the other documents and their trees are untouched.
C10_Step ==
  \A d \in Docs :
    op'.kind = "close" /\ op'.doc = d =>
      /\ d \notin DOMAIN documentCache'
      /\ d \in DOMAIN documentCache =>
            /\ trees[documentCache[d].tree].deleted = 0
            /\ trees'[documentCache[d].tree].deleted = 1
      /\ d \notin DOMAIN documentCache =>
            documentCache' = documentCache /\ trees' = trees
      /\ DOMAIN documentCache' = DOMAIN documentCache \ {d}
      /\ \A e \in DOMAIN documentCache' :
            /\ documentCache'[e] = documentCache[e]
            /\ trees'[documentCache[e].tree] = trees[documentCache[e].tree]
      /\ \A h \in DOMAIN trees :
            h # OldTree(d) => trees'[h] = trees[h]

C10_CloseRemovesTheEntry == [][C10_Step]_vars

\* A close event removed one entry and left the entry of another document.
C10_Witness ==
  /\ op.kind = "close"
  /\ op.old # NoHandle
  /\ trees[op.old].deleted = 1
  /\ op.doc \notin DOMAIN documentCache
  /\ documentCache # EmptyMap

\* C11: a request without a Cache token leaves the document cache and every
\* existing tree as they were, also when the document has an entry; when its
\* grammar is loaded it parses the current text in full, with no previous
\* tree, and a request that succeeds returns a new handle that belongs to
\* the caller alone.
C11_Step ==
  \A d \in Docs :
    (op'.kind = "documentTreeSync" /\ op'.doc = d /\ ~op'.cache) =>
      /\ documentCache' = documentCache
      /\ \A h \in DOMAIN trees : trees'[h] = trees[h]
      /\ op'.result # "notLoaded" => op'.parse = "full" /\ op'.seed = NoHandle
      /\ op'.result = "ok" =>
            /\ Len(trees') = Len(trees) + 1
            /\ op'.ret = Len(trees')
            /\ trees'[op'.ret].text = docText[d]
            /\ trees'[op'.ret].deleted = 0
            /\ op'.ret \in callerTrees' \ callerTrees
            /\ op'.ret \notin CachedTrees'

C11_UncachedRequestIsPure == [][C11_Step]_vars

\* A request without a Cache token returned a tree for a document whose
\* entry is dirty, and the entry is as it was.
C11_Witness ==
  /\ op.kind = "documentTreeSync" /\ ~op.cache /\ op.result = "ok"
  /\ op.old # NoHandle /\ op.oldTs # 0
  /\ op.doc \in DOMAIN documentCache
  /\ documentCache[op.doc] = [tree |-> op.old, dirtyTimestamp |-> op.oldTs]
  /\ trees[op.ret].text = docText[op.doc]
  /\ trees[documentCache[op.doc].tree].text # docText[op.doc]

\* The step is a call of documentTreeSync, made by a caller or by the
\* continuation of documentTree.
SyncStep ==
  /\ op'.kind = "documentTreeSync"
  /\ UNCHANGED <<loadVars, loadedLanguages, now>>

\* The step is the continuation of the documentTree call of p after its
\* ensureLoaded(document) completed successfully.
ResumedAfterLoad(p) ==
  /\ calls[p].pc = "awaitLoad"
  /\ calls'[p].pc = "idle"
  /\ procs[p].result = "ok"

\* C12: a call of documentTreeSync for which the registry has no entry or a
\* pending promise under the language of options.language, or else of the
\* document, fails with language-not-loaded; it makes no parser, parses
\* nothing and leaves the document cache and the trees as they were.
C12_Step ==
  /\ \A p \in Procs :
       (SyncStep /\ ResumedAfterLoad(p)) =>
         parser'.language =
           ResolvedLanguage(calls[p].doc, calls[p].optLanguage)
  /\ (SyncStep /\ calls' = calls) =>
       parser'.language = DetermineLanguage(op'.doc)
  /\ (SyncStep /\ loadedLanguages[parser'.language].kind # "module") =>
       /\ op'.result = "notLoaded"
       /\ ~parser'.created
       /\ op'.parse = "none"
       /\ UNCHANGED <<documentCache, trees, callerTrees>>

C13_Step ==
  \A p \in Procs :
    (ResumedAfterLoad(p) /\ op'.kind = "documentTreeSync") =>
      op'.result \notin {"notLoaded", "undeterminable"}

C13_LoadedBeforeParse == [][C13_Step]_vars

\* C14: a documentTree call with a timeout whose deadline is reached when
\* its ensureLoaded(document) has completed fails with a timeout; it makes no
\* parser, parses nothing and leaves the document cache and the trees as
\* they were.
C14_Step ==
  \A p \in Procs :
    (/\ ResumedAfterLoad(p)
     /\ calls[p].timeoutMs > 0
     /\ calls[p].deadline # 0
     /\ now >= calls[p].deadline) =>
      /\ op'.kind = "documentTree"
      /\ op'.result = "timeout"
      /\ calls'[p].result = "timeout"
      /\ parser' = NoParser
      /\ op'.parse = "none"
      /\ UNCHANGED <<documentCache, trees, callerTrees>>

C14_ElapsedDeadlineFailsBeforeParsing == [][C14_Step]_vars

\* A documentTree call for a document with a cache entry failed with a
\* timeout and the entry is as it was.
C14_Witness ==
  /\ op.kind = "documentTree"
  /\ op.result = "timeout"
  /\ \E p \in Procs : calls[p].pc = "idle" /\ calls[p].result = "timeout"
  /\ op.old # NoHandle
  /\ op.doc \in DOMAIN documentCache
  /\ documentCache[op.doc] = [tree |-> op.old, dirtyTimestamp |-> op.oldTs]
  /\ trees[op.old].deleted = 0

\* C15: the parser of a documentTree call with a timeout whose deadline is
\* not reached after the load is given the remaining budget, deadline minus
\* current time, which is positive and at most the caller's timeoutMs; the
\* parser of a direct documentTreeSync call with timeoutMs > 0 is given
\* timeoutMs * 1000 microseconds.
C15_Step ==
  /\ \A p \in Procs :
       (/\ ResumedAfterLoad(p)
        /\ calls[p].deadline # 0
        /\ now < calls[p].deadline
        /\ parser'.created) =>
         /\ calls[p].deadline - now > 0
         /\ calls[p].deadline - now <= calls[p].timeoutMs
         /\ parser'.timeoutMicros = (calls[p].deadline - now) * 1000
  /\ \A d \in Docs, timeoutMs \in {0, SomeTimeoutMs} :
       (/\ DocumentTreeSync(d, NoLanguage, NoCache, timeoutMs, TRUE)
        /\ timeoutMs > 0
        /\ parser'.created) =>
         parser'.timeoutMicros = timeoutMs * 1000

C15_ParserGetsRemainingBudget == [][C15_Step]_vars

\* C16: a documentTree call that fails with a timeout had its load
\* completed and changes nothing of the loads, of the registry or of the
\* other ensureLoaded calls; a load that resolves registers its module; and
\* every call that awaits a resolved load completes successfully.
C16_Step ==
  /\ \A p \in Procs :
       (calls[p].pc = "awaitLoad" /\ calls'[p].pc = "idle"
        /\ op'.kind = "documentTree" /\ op'.result = "timeout") =>
         /\ procs[p].result = "ok"
         /\ UNCHANGED <<loads, loadedLanguages, procs, runtime>>
  /\ \A id \in DOMAIN loads :
       /\ id \in DOMAIN loads'
       /\ loads[id].state # "pending" => loads'[id] = loads[id]
       /\ (loads[id].state = "pending" /\ loads'[id].state = "resolved") =>
            loadedLanguages'[loads[id].language] = ModuleOf(id)
  /\ \A q \in Procs :
       (/\ procs[q].pc = "awaitLanguage"
        /\ procs'[q].pc = "idle"
        /\ Settled(procs[q].wait) = "resolved") =>
         procs'[q].result = "ok"

C16_TimeoutLeavesTheLoadAlone == [][C16_Step]_vars

\* A documentTree call has failed with a timeout while another caller still
\* awaits the load of the same grammar, which has resolved and whose module
\* is registered.
C16_Witness ==
  /\ op.kind = "documentTree"
  /\ op.result = "timeout"
  /\ \E p \in Procs, q \in Procs, id \in DOMAIN loads :
       /\ p # q
       /\ calls[p].pc = "idle" /\ calls[p].result = "timeout"
       /\ procs[q].pc = "awaitLanguage"
       /\ procs[q].wait = PromiseOf(id)
       /\ loads[id] = [language |-> DetermineLanguage(op.doc),
                       state |-> "resolved"]
       /\ loadedLanguages[DetermineLanguage(op.doc)] = ModuleOf(id)

\* The call of q awaits the promise of load number id.
AwaitsLoad(q, id) ==
  /\ procs[q].pc = "awaitLanguage"
  /\ procs[q].wait = PromiseOf(id)

\* C17: a call of ensureLoaded that awaits the promise of a load does not
\* complete while the load is pending; once the load has failed the call
\* cannot complete successfully, and it does end, rejected.
C17_Step ==
  \A q \in Procs, id \in DOMAIN loads :
    (AwaitsLoad(q, id) /\ procs'[q] # procs[q]) =>
      /\ loads[id].state # "pending"
      /\ loads[id].state = "rejected" => procs'[q] = Idle("rejected")

C17_LoadFailureReachesEveryWaiter ==
  /\ [][C17_Step]_vars
  /\ \A q \in Procs, id \in 1 .. MaxLoads :
       (id \in DOMAIN loads /\ AwaitsLoad(q, id)
        /\ loads[id].state = "rejected")
         ~> (procs[q] = Idle("rejected"))

\* Two calls awaited the same load, it failed, and both were rejected.
C17_Witness ==
  /\ Len(loads) = 1
  /\ loads[1].state = "rejected"
  /\ \A q \in Procs : procs[q] = Idle("rejected")

\* C18: a registry entry that holds a resolved module holds that module
\* after every step, and no load of its language is started any more.
C18_Step ==
  \A l \in Languages :
    loadedLanguages[l].kind = "module" =>
      /\ loadedLanguages'[l] = loadedLanguages[l]
      /\ LoadCalls(l)' = LoadCalls(l)

C18_ResolvedModuleStays == [][C18_Step]_vars

\* The calls that are reading or compiling the runtime module.
LoadingRuntime == {p \in Procs : procs[p].pc \in {"readRuntime", "compileRuntime"}}

\* C19: at most one call of ensureLoaded is reading or compiling the runtime
\* module at any time and no call starts to when the runtime is initialised
\* or another call is at it already; the runtime never goes back to an
\* earlier stage of its initialisation; a call without argument leaves the
\* grammar registry alone.
C19_Inv == Cardinality(LoadingRuntime) <= 1

C19_Step ==
  /\ \A p \in Procs :
       (procs[p].pc = "idle" /\ procs'[p].pc = "readRuntime") =>
         runtime = "none" /\ LoadingRuntime = {}
  /\ runtime = "ready" => runtime' = "ready"
  /\ runtime = "pending" => runtime' # "none"
  /\ \A p \in Procs :
       (/\ procs'[p] # procs[p]
        /\ procs[p].pc \notin {"idle", "awaitLanguage", "readGrammar"}
        /\ procs[p].language = NoLanguage) =>
         loadedLanguages' = loadedLanguages

C19_RuntimeSingleFlight == []C19_Inv /\ [][C19_Step]_vars

\* C20: determineLanguage gives C for a string that ends in .c, Rust for
\* .rs, Python for .py, the TypeScript-React variant for .tsx, TypeScript
\* for .ts and nothing for a suffix of no rule (.xy); determineLanguageOrFail
\* returns what determineLanguage determines and throws exactly when
\* determineLanguage determines nothing.
C20_SuffixTable ==
  determination.language # "pending" =>
    LET input == determination.input
        language == determination.language
    IN
    /\ EndsWith(input, <<".", "c">>) => language = "c"
    /\ EndsWith(input, <<".", "r", "s">>) => language = "rust"
    /\ EndsWith(input, <<".", "p", "y">>) => language = "python"
    /\ EndsWith(input, <<".", "t", "s", "x">>) => language = "tsx"
    /\ EndsWith(input, <<".", "t", "s">>) => language = "typescript"
    /\ EndsWith(input, <<".", "x", "y">>) => language = NoLanguage
    /\ language # NoLanguage => determination.orFail = language
    /\ language = NoLanguage <=> determination.orFail = CannotDetermine

\* C23: a cache-aware request whose parse fails returns no tree and leaves
\* the document cache and every tree as they were: a dirty entry keeps its
\* handle, unreleased, and its dirty marker, and no entry is made for a
\* document that had none; the parser was invoked once.
C23_Step ==
  \A d \in Docs :
    (/\ op'.kind = "documentTreeSync" /\ op'.doc = d /\ op'.cache
     /\ op'.result = "parseFailed") =>
      /\ op'.ret = NoHandle
      /\ op'.parse \in {"full", "incremental"}
      /\ parser'.created
      /\ UNCHANGED <<documentCache, trees, callerTrees>>
      /\ d \in DOMAIN documentCache =>
            /\ documentCache[d].dirtyTimestamp # 0
            /\ documentCache'[d] = documentCache[d]
            /\ trees'[documentCache'[d].tree].deleted = 0
            /\ op'.parse = "incremental"
      /\ d \notin DOMAIN documentCache =>
            d \notin DOMAIN documentCache' /\ op'.parse = "full"

C23_FailedParseKeepsTheEntry == [][C23_Step]_vars

\* The reparse of a dirty entry failed and the entry is as it was.
C23_Witness ==
  /\ op.kind = "documentTreeSync" /\ op.cache
  /\ op.result = "parseFailed"
  /\ op.parse = "incremental"
  /\ op.oldTs # 0
  /\ op.doc \in DOMAIN documentCache
  /\ documentCache[op.doc] = [tree |-> op.old, dirtyTimestamp |-> op.oldTs]
  /\ trees[op.old].deleted = 0

\* C24: a change notification makes no parser and no tree; for a clean
\* entry it sets the dirty timestamp to the current time and keeps the
\* handle, unreleased; for a document without an entry it makes no entry
\* and changes no tree.
C24_Step ==
  \A d \in Docs :
    (op'.kind = "change" /\ op'.doc = d) =>
      /\ parser' = NoParser
      /\ Len(trees') = Len(trees)
      /\ callerTrees' = callerTrees
      /\ (d \in DOMAIN documentCache /\ documentCache[d].dirtyTimestamp = 0) =>
            /\ documentCache' =
                 [documentCache EXCEPT ![d].dirtyTimestamp = now]
            /\ now # 0
            /\ trees' = trees
            /\ trees'[documentCache'[d].tree].deleted = 0
      /\ d \notin DOMAIN documentCache =>
            UNCHANGED <<documentCache, trees>>

C24_ChangeOnlyMarksDirty == [][C24_Step]_vars

\* A change notification after time has passed marked a clean entry dirty
\* with the time of the notification.
C24_Witness ==
  /\ op.kind = "change"
  /\ op.old # NoHandle /\ op.oldTs = 0
  /\ now > StartNow
  /\ op.doc \in DOMAIN documentCache
  /\ documentCache[op.doc] = [tree |-> op.old, dirtyTimestamp |-> now]
  /\ trees[op.old].deleted = 0

\* C30: deactivation calls delete() once on the tree of every cache entry
\* and on no other tree, and empties the document cache and the grammar
\* registry; from then on both stay empty and every documentTreeSync call
\* fails with language-not-loaded.
C30_Step ==
  op'.kind = "dispose" =>
    /\ \A h \in DOMAIN trees :
         trees'[h].deleted =
           trees[h].deleted + (IF h \in CachedTrees THEN 1 ELSE 0)
    /\ \A h \in CachedTrees : trees'[h].deleted = 1
    /\ documentCache' = EmptyMap
    /\ \A l \in Languages : loadedLanguages'[l] = Undefined

C30_Inv ==
  ~subscribed =>
    /\ documentCache = EmptyMap
    /\ \A l \in Languages : loadedLanguages[l] = Undefined
    /\ op.kind = "documentTreeSync" => op.result = "notLoaded"

C30_DeactivationEmptiesEverything == []C30_Inv /\ [][C30_Step]_vars

\* After a deactivation that released the tree of a cache entry, a
\* cache-aware request failed with language-not-loaded.
C30_Witness ==
  /\ ~subscribed
  /\ op.kind = "documentTreeSync" /\ op.result = "notLoaded" /\ op.cache
  /\ \A d \in Docs : docOpen[d]
  /\ \E h \in DOMAIN trees :
       trees[h].role = "cache" /\ trees[h].deleted = 1

\* C29: a cache-aware request for a document whose entry is clean, made
\* with a Cache instance other than that of the last cache-aware request
\* for the document, parses nothing, leaves the cache as it is and returns
\* a new tree with the content of the cached tree.
C29_Step ==
  \A d \in Docs, cache \in Caches :
    (/\ DocumentTreeSync(d, NoLanguage, cache, 0, TRUE)
     /\ lastCache[d] \notin {NoCache, cache}
     /\ d \in DOMAIN documentCache
     /\ documentCache[d].dirtyTimestamp = 0) =>
      /\ op'.result = "ok" /\ op'.cache
      /\ op'.parse = "none"
      /\ documentCache' = documentCache
      /\ op'.ret \notin DOMAIN trees
      /\ op'.ret # documentCache[d].tree
      /\ trees'[op'.ret].text = trees[documentCache[d].tree].text
      /\ trees'[op'.ret].language = trees[documentCache[d].tree].language
      /\ \A h \in DOMAIN trees : trees'[h] = trees[h]

C21_EmptyRangeStaysEmpty ==
  conversion.by \in {"toRange", "importRange"} =>
    /\ conversion.native.startIndex = conversion.native.endIndex =>
          /\ conversion.range.start = conversion.range.end
          /\ conversion.range.start =
               ToPosition(conversion.native.startPosition)
    /\ ~IsBefore(conversion.range.end, conversion.range.start)

\* A native range with equal offsets whose two points differ was converted.
C21_Witness ==
  /\ conversion.by = "toRange"
  /\ conversion.native.startIndex = conversion.native.endIndex
  /\ conversion.native.startPosition # conversion.native.endPosition
  /\ conversion.range.start = conversion.range.end

\* C22: when the continuation of withDocumentTree calls withQuery and awaits
\* it, the tree is unreleased as long as the continuation's promise is
\* pending, the query continuation is invoked with the tree and the query
\* unreleased, and once the outer call is over the tree and the query, if
\* obtained, have been released once each, the query first.
NestedCall ==
  /\ withCalls[Outer].helper = "withDocumentTree"
  /\ withCalls[Outer].k = "nested"

C22_Inv ==
  NestedCall =>
    /\ withCalls[Outer].pc = "pending" => withCalls[Outer].released = 0
    /\ withCalls[Nested].pc \in {"acquiring", "pending", "settled"} =>
         /\ withCalls[Outer].pc = "pending"
         /\ withCalls[Nested].released = 0
    /\ (withCalls[Outer].pc = "done" /\ withCalls[Outer].obtained) =>
         /\ withCalls[Outer].released = 1
         /\ withCalls[Nested].pc = "done"
         /\ withCalls[Nested].released =
              (IF withCalls[Nested].obtained THEN 1 ELSE 0)
         /\ releaseLog = IF withCalls[Nested].obtained
                           THEN <<Nested, Outer>> ELSE <<Outer>>

C22_Step ==
  (NestedCall /\ withCalls'[Nested].invoked > withCalls[Nested].invoked) =>
    /\ withCalls[Outer].released = 0
    /\ withCalls'[Outer].released = 0
    /\ withCalls[Nested].released = 0
    /\ withCalls'[Outer].pc = "pending"

C22_NestedReleaseOrder == []C22_Inv /\ [][C22_Step]_vars

\* The nested call of the test is over: the query continuation returned and
\* the query was released before the tree.
C22_Witness ==
  /\ NestedCall
  /\ withCalls[Outer].pc = "done" /\ withCalls[Outer].outcome = "resolved"
  /\ withCalls[Nested].helper = "withQuery"
  /\ withCalls[Nested].k = "value" /\ withCalls[Nested].invoked = 1
  /\ releaseLog = <<Nested, Outer>>

\* C25: while the result of the continuation is pending, `using` has
\* released none of its handles, and withDocumentTree and withQuery have
\* not released their resource.
C25_NoReleaseWhilePending ==
  /\ usingCall.pc = "pending" =>
       \A o \in Objects : usingCall.released[o] = 0
  /\ \A i \in WithFrames :
       (withCalls[i].helper \in AsyncHelpers /\ withCalls[i].pc = "pending") =>
         /\ withCalls[i].obtained
         /\ withCalls[i].released = 0
         /\ \A j \in 1 .. Len(releaseLog) : releaseLog[j] # i

\* `using` with two handles and a with-helper are both waiting for the
\* pending result of their continuation.
C25_Witness ==
  /\ usingCall.pc = "pending" /\ usingCall.args = <<1, 2>>
  /\ withCalls[Outer].pc = "pending" /\ withCalls[Outer].k = "pending"
  /\ withCalls[Outer].helper = "withDocumentTree"

\* C26: a call of `using` or of a with-helper ends as its continuation ended:
\* a value is returned (resolved), an error rethrown (rejected), and a
\* pending result settles the call as it settled itself; a with-helper
\* whose resource could not be obtained fails without having invoked the
\* continuation or released anything.
C26_Inv ==
  /\ usingCall.pc = "done" =>
       usingCall.outcome =
         (CASE usingCall.k = "throws" -> "thrown"
            [] usingCall.k \in {"null", "value"} -> "returned"
            [] OTHER -> usingCall.outcome)
  /\ (usingCall.pc = "done" /\ usingCall.k = "thenable") =>
       usingCall.outcome \in {"resolved", "rejected"}
  /\ \A i \in WithFrames :
       /\ ~withCalls[i].obtained =>
            withCalls[i].invoked = 0 /\ withCalls[i].released = 0
       /\ withCalls[i].pc = "done" =>
            /\ (withCalls[i].outcome = "failed") = ~withCalls[i].obtained
            /\ withCalls[i].obtained =>
                 /\ withCalls[i].invoked = 1
                 /\ withCalls[i].k = "throws" =>
                      withCalls[i].kOutcome = "thrown"
                 /\ withCalls[i].k = "value" =>
                      withCalls[i].kOutcome \in {"resolved", "returned"}
                 /\ withCalls[i].outcome =
                      (IF withCalls[i].helper \in AsyncHelpers
                         THEN IF withCalls[i].kOutcome = "resolved"
                                THEN "resolved" ELSE "rejected"
                         ELSE IF withCalls[i].kOutcome = "thrown"
                                THEN "thrown" ELSE "returned")

C26_Step ==
  /\ (usingCall.pc = "settled" /\ usingCall'.pc = "done") =>
       usingCall'.outcome = usingCall.outcome
  /\ \A i \in WithFrames :
       (withCalls[i].pc = "settled" /\ withCalls'[i].pc = "done") =>
         withCalls'[i].outcome = withCalls[i].kOutcome

C26_OutcomePassesThrough == []C26_Inv /\ [][C26_Step]_vars

\* A with-helper rejected as the pending result of its continuation did,
\* after a call of `using` had done the same.
C26_Witness ==
  /\ withCalls[Outer].pc = "done" /\ withCalls[Outer].k = "pending"
  /\ withCalls[Outer].kOutcome = "rejected"
  /\ withCalls[Outer].outcome = "rejected"
  /\ usingCall.pc = "done" /\ usingCall.k = "thenable"
  /\ usingCall.outcome = "rejected"

\* C27: the then-callback of an update that a newer update has superseded
\* leaves the status item as it is, and once every update is over the item
\* shows what the most recently triggered update made: its texts, or
\* nothing when that update found no editor.
Superseded(g) == g < Len(inspect.updates)

C27_Step ==
  \A g \in 1 .. MaxUpdates :
    (/\ g \in 1 .. Len(inspect.updates)
     /\ inspect.updates[g].pc = "computed"
     /\ inspect'.updates[g].pc = "done"
     /\ Superseded(g)) =>
      inspect'.item = inspect.item

C27_Inv ==
  LET n == Len(inspect.updates) IN
  (n > 0 /\ \A g \in 1 .. n : inspect.updates[g].pc = "done") =>
    IF inspect.updates[n].texts = UndefinedTexts
      THEN ~inspect.item.visible
      ELSE inspect.item.visible /\ inspect.item.text = n

C27_SupersededUpdateIsDiscarded == []C27_Inv /\ [][C27_Step]_vars

\* C28: the finalization callback of an unreachable wrapper calls delete()
\* on the handle the wrapper was made of, and no handle is released by
\* finalization more than once: at most one finalized wrapper per handle,
\* and a handle that finalization releases was unreleased until then.
FinalizedWrappers(h) ==
  {w \in DOMAIN wrappers : wrappers[w].tree = h /\ wrappers[w].finalized}

C28_Inv ==
  \A h \in DOMAIN trees : Cardinality(FinalizedWrappers(h)) <= 1

C28_Step ==
  \A w \in 1 .. MaxWrappers :
    (/\ w \in DOMAIN wrappers
     /\ ~wrappers[w].finalized
     /\ wrappers'[w].finalized) =>
      /\ ~wrappers[w].reachable
      /\ trees[wrappers[w].tree].deleted = 0
      /\ trees'[wrappers[w].tree].deleted = 1

C28_FinalizationReleasesOnce == []C28_Inv /\ [][C28_Step]_vars

\* C31: for a string that is not a language tag, determineLanguage gives
\* what it gives for the final extension of the string alone (the part from
\* the last dot on, or nothing when there is no dot), which is a path with
\* the same final extension: what comes before the last dot does not matter.
IsLanguageTag(input) ==
  \E tag \in DOMAIN AllLanguages : AllLanguages[tag] = input

FinalExtension(input) ==
  LET dots == {i \in 1 .. Len(input) : input[i] = "."} IN
  IF dots = {} THEN <<>>
  ELSE LET last == CHOOSE i \in dots : \A j \in dots : j <= i
       IN SubSeq(input, last, Len(input))

C31_FinalSuffixDecides ==
  (determination.language # "pending"
     /\ ~IsLanguageTag(determination.input)) =>
    determination.language =
      DetermineLanguageString(FinalExtension(determination.input))

\* C32: the tree that a successful cache-aware request returns was parsed
\* with the grammar of the language the request resolved, the one its
\* parser was set to.
C32_Step ==
  (/\ op'.kind = "documentTreeSync" /\ op'.cache
   /\ op'.result = "ok") =>
    /\ parser'.created
    /\ trees'[op'.ret].language = parser'.language

C32_TreeHasTheRequestedGrammar == [][C32_Step]_vars

\* C33: while the extension is active, the document cache has no entry for
\* a document whose close event was handled, also when a cache-aware
\* documentTree call for it was waiting for its grammar at the close.
C33_ClosedDocumentHasNoEntry ==
  \A d \in Docs :
    (subscribed /\ ~docOpen[d]) => d \notin DOMAIN documentCache

\* C34: when a documentTreeSync call is over, the parser it made has had
\* delete() called on it once, whether the call returned a tree or threw
\* in setLanguage or in the parse; and it made no parser exactly when the
\* language was not loaded.
C34_ParserReleasedOnce ==
  /\ op.kind = "documentTreeSync" =>
       /\ parser.created => parser.deleted = 1
       /\ ~parser.created => parser.deleted = 0
       /\ parser.created = (op.result # "notLoaded")
       /\ op.result \in {"ok", "notLoaded", "parseFailed",
                          "setLanguageFailed"}
  /\ op.kind \notin {"documentTreeSync", "documentTree"} => parser = NoParser

\* A cache-aware request on a dirty entry failed in setLanguage after its
\* parser was made, and the parser was released.
C34_Witness ==
  /\ op.kind = "documentTreeSync" /\ op.cache
  /\ op.result = "setLanguageFailed"
  /\ op.oldTs # 0
  /\ parser.created /\ parser.deleted = 1

\* C35: whatever requests were made and whichever wrappers were finalized,
\* the handle stored in each cache entry has not been released.
C35_CachedHandleIsUnreleased ==
  \A d \in DOMAIN documentCache : trees[documentCache[d].tree].deleted = 0

\* Some load of the language has failed.
LoadFailed(language) ==
  \E id \in DOMAIN loads :
    loads[id].language = language /\ loads[id].state = "rejected"

\* The registry entry of the language is the promise of a failed load.
KeepsRejectedPromise(language) ==
  /\ loadedLanguages[language].kind = "promise"
  /\ loads[loadedLanguages[language].id].state = "rejected"

\* C36: once a load of a language has failed, the registry entry of the
\* language is the rejected promise, which getLanguageSync refuses as not
\* loaded; the loader is not invoked for the language again; and an
\* ensureLoaded call made for it from then on awaits that rejected promise.
C36_Inv ==
  \A l \in Languages :
    LoadFailed(l) =>
      KeepsRejectedPromise(l) /\ ~IsLanguage(loadedLanguages[l])

C36_Step ==
  \A l \in Languages :
    LoadFailed(l) =>
      /\ LoadCalls(l)' = LoadCalls(l)
      /\ \A p \in Procs :
           (procs[p].pc = "idle" /\ procs'[p].pc # "idle"
            /\ procs'[p].language = l) =>
             /\ procs'[p].pc = "awaitLanguage"
             /\ Settled(procs'[p].wait) = "rejected"

C36_FailedLoadIsSticky == []C36_Inv /\ [][C36_Step]_vars

====
